---- MODULE Spec2Model ----
(***************************************************************************)
(* A model of thunderbird-cli: the persistent store (pgStore: Upsert,      *)
(* PruneMissing, SetMeta) and the search/cache pipeline (App.search,        *)
(* App.buildIndex, buildFolderIndex, searchMailbox), the latter also one    *)
(* reader call at a time, the commands recent and show (App.recent,        *)
(* App.showMail) with the files under the root, and the pure functions of   *)
(* the pipeline (makeMatcher, the final sort, the date range) on bounded    *)
(* inputs.                                                                  *)
(*                                                                         *)
(* Go strings are sequences of byte values (naturals).  time.Time values    *)
(* are naturals counted in clock ticks, 0 being the zero time.Time.        *)
(***************************************************************************)
EXTENDS Integers, Sequences, FiniteSets, Bags, TLC

VARIABLES
    db,        \* tb_messages: the committed rows, a bag of row records
    meta,      \* tb_meta: key -> val, for the keys present
    pc,        \* per store client: "idle" or "tx" (inside Upsert's transaction)
    batch,     \* per store client: the msgs argument of the Upsert in progress
    idx,       \* per store client: number of msgs already executed in the transaction
    txrows,    \* per store client: the rows written in the open transaction, in order
    pre,       \* per store client: the committed table when the Upsert in progress was called
    res,       \* per store client: outcome of its last Upsert: "none", "ok", "err"
    last,      \* the store call that returned last, if no call has started since:
               \* op, arguments, error, table before and after
    repeat,    \* the last Upsert repeated the batch of the committed Upsert right before it
    base,      \* the committed table in the initial state
    plan,      \* per store client: the batch it upserts when the clients run concurrently
    files,     \* per mailbox: the container file (mtime in ticks, entries, readable;
               \* late: written after the first command began, which no code reads)
    now,       \* the clock, in ticks
    cacheFile, \* .tb-index.json: whether it exists, and folder -> FolderIndex
    run,       \* the command in progress or last run, with its arguments
    spc,       \* position in the command: "idle", "folder", "scan", "read", "stat"
    fidx,      \* index of the folder being processed in the filtered list
    cache,     \* the command's in-memory IndexFile (exists FALSE: nil, noIndex)
    changed,   \* search: an entry was replaced
    hits,      \* search: the aggregated hits so far
    seenKeys,  \* search: the de-duplication keys seen so far
    more,      \* search: the current folder's filtered match list
    full,      \* the reader loop in progress: what it holds and how many messages
               \* the reader returned; after searchMailbox, its result
    scans,     \* per mailbox: calls of searchMailbox by the command
    dec,       \* per mailbox: what the staleness test saw and where the hits came from
    dropped,   \* search: hits skipped as duplicates
    saves,     \* calls of saveIndex by the command
    out,       \* the result of the last command: hits and error
    nops,      \* commands run so far
    fcall,     \* the last application of a pure function: arguments and result
    scan,      \* the searchMailbox call in progress, one reader call at a time
    profilesIni, \* profiles.ini under the root: readable, and the profiles it lists
    prefsJs    \* prefs.js of the profile: readable, and the identities it defines

storeVars == <<db, meta, pc, batch, idx, txrows, pre, res, last, repeat, base, plan>>

searchVars == <<files, now, cacheFile, run, spc, fidx, cache, changed, hits, seenKeys,
                more, full, scans, dec, dropped, saves, out, nops>>

unitVars == <<fcall, scan>>

configVars == <<profilesIni, prefsJs>>

vars == <<storeVars, searchVars, unitVars, configVars>>

-----------------------------------------------------------------------------
(* Byte values used in the modelled strings.                                *)

NUL == 0
BAD == 255

\* bytes.ReplaceAll(b, []byte{0x00}, []byte{}): every NUL byte removed.
ReplaceAllNUL(s) == SelectSeq(s, LAMBDA c : c # NUL)

\* bytes.ToValidUTF8(b, nil): every run of invalid bytes removed.  BAD stands
\* for a byte that is invalid wherever it occurs (0xFF); the others are ASCII.
ToValidUTF8(s) == SelectSeq(s, LAMBDA c : c # BAD)

forceUTF8(s) == IF s = <<>> THEN s ELSE ToValidUTF8(ReplaceAllNUL(s))

\* time.Parse(time.RFC3339, s): the modelled RFC 3339 strings are "T" followed
\* by one digit d (bytes 84, then 49 or 50), denoting the instant d - '0';
\* anything else is an error.
ParsesRFC3339(s) == Len(s) = 2 /\ s[1] = 84 /\ s[2] \in {49, 50}

RFC3339Time(s) == s[2] - 48

-----------------------------------------------------------------------------
(* pgStore: the rows.                                                       *)

\* The arguments Upsert passes to tx.Exec for one MailSummary.
RowOf(m) ==
    [profile     |-> m.Profile,
     message_id  |-> forceUTF8(m.MessageID),
     folder      |-> forceUTF8(m.Folder),
     subject     |-> forceUTF8(m.Subject),
     sender      |-> forceUTF8(m.From),
     snippet     |-> forceUTF8(m.Snippet),
     search_text |-> forceUTF8(m.Search),
     when_ts     |-> IF m.When = 0 /\ m.Date # <<>> /\ ParsesRFC3339(m.Date)
                     THEN RFC3339Time(m.Date) ELSE m.When,
     date_str    |-> forceUTF8(m.Date),
     account     |-> forceUTF8(m.Account)]

\* A variant of the conflict target that names message_id alone, as in the
\* schema that had message_id as its primary key.
ConflictTargetMessageIdOnly(r) == <<r.message_id>>

\* ON CONFLICT (profile, message_id): the primary key of tb_messages.
ConflictTarget(r) == <<r.profile, r.message_id>>

\* A variant of the statement without its ON CONFLICT clause on a table without
\* the primary key: every execution adds a row.
InsertAlways(t, r) == t (+) SetToBag({r})

\* INSERT ... ON CONFLICT (profile, message_id) DO UPDATE SET <every other
\* column> = EXCLUDED.<column>: a row with the same key is overwritten in
\* place, otherwise the row is added.
InsertOnConflict(t, r) ==
    LET old == {x \in BagToSet(t) : ConflictTarget(x) = ConflictTarget(r)}
        n   == BagCardinality([x \in old |-> t[x]])
        rest == [x \in BagToSet(t) \ old |-> t[x]]
    IN  IF old = {} THEN t (+) SetToBag({r})
        ELSE rest (+) [x \in {r} |-> n]

RECURSIVE ApplyAll(_, _)
\* The statements of one transaction applied in order.
ApplyAll(t, rows) ==
    IF rows = <<>> THEN t
    ELSE ApplyAll(InsertOnConflict(t, Head(rows)), Tail(rows))

\* A variant in which the statements run outside the transaction, so that the
\* rollback finds them already committed.
TxRollbackKeepsWrites(t, rows) == ApplyAll(t, rows)

\* A variant of commit that publishes the table as the transaction saw it at
\* Begin plus its own writes, dropping what others committed meanwhile.
TxCommitFromSnapshot(t, snapshot, rows) == ApplyAll(snapshot, rows)

\* tx.Commit: the transaction's writes are applied to the committed table t
\* (snapshot is the committed table at Begin).
TxCommit(t, snapshot, rows) == ApplyAll(t, rows)

\* defer tx.Rollback: the transaction's writes are dropped.
TxRollback(t, rows) == t

-----------------------------------------------------------------------------
(* The store's callers and their inputs.                                    *)

MaxBatch == 2

Procs == {1, 2}

Profiles == {"p1", "p2"}

\* A MailSummary as Upsert receives it.
Msg(p, id, subj, when, date) ==
    [Profile |-> p, MessageID |-> id, Folder |-> <<73>>, Subject |-> subj,
     From |-> <<102>>, Snippet |-> subj, Search |-> subj, When |-> when,
     Date |-> date, Account |-> <<>>]

\* Messages offered to Upsert: identifier "a" under both profiles, "a" again
\* with other contents and with a NUL byte in the raw identifier, identifier
\* "b" with an unparsed date that is an RFC 3339 string, and an invalid byte
\* in a subject.
StoreMsgs ==
    { Msg("p1", <<97>>, <<120>>, 1, <<49>>),
      Msg("p1", <<97, 0>>, <<121>>, 2, <<50>>),
      Msg("p2", <<97>>, <<120>>, 1, <<49>>),
      Msg("p1", <<98>>, <<122, 255>>, 0, <<84, 50>>) }

RECURSIVE SeqsUpTo(_, _)
SeqsUpTo(S, n) ==
    IF n = 0 THEN {<<>>}
    ELSE LET shorter == SeqsUpTo(S, n - 1)
         IN  shorter \cup {Append(q, x) : q \in shorter, x \in S}

Batches == SeqsUpTo(StoreMsgs, MaxBatch)

MessageIDs == {<<97>>, <<98>>}

KeepLists == SUBSET MessageIDs

MetaKeys == {"fp:p1"}

MetaVals == {"v1"}

NoCall == [op |-> "none"]

-----------------------------------------------------------------------------
(* pgStore.Upsert, one step per database round trip.                        *)

\* Upsert called with msgs = b.  An empty batch returns nil at once; otherwise
\* pool.Begin either fails (the error is returned) or opens the transaction.
UpsertStart(p, b) ==
    /\ pc[p] = "idle"
    /\ repeat' = (last.op = "Upsert" /\ ~last.err /\ last.batch = b)
    /\ IF Len(b) = 0
       THEN /\ last' = [op |-> "Upsert", batch |-> b, pre |-> db, post |-> db,
                        premeta |-> meta, err |-> FALSE, done |-> 0]
            /\ res' = [res EXCEPT ![p] = "ok"]
            /\ UNCHANGED <<pc, batch, pre>>
       ELSE \E ok \in BOOLEAN :
              IF ok
              THEN /\ pc' = [pc EXCEPT ![p] = "tx"]
                   /\ batch' = [batch EXCEPT ![p] = b]
                   /\ pre' = [pre EXCEPT ![p] = db]
                   /\ last' = NoCall
                   /\ res' = [res EXCEPT ![p] = "none"]
              ELSE /\ last' = [op |-> "Upsert", batch |-> b, pre |-> db,
                               post |-> db, premeta |-> meta, err |-> TRUE,
                               done |-> 0]
                   /\ res' = [res EXCEPT ![p] = "err"]
                   /\ UNCHANGED <<pc, batch, pre>>
    /\ UNCHANGED <<db, meta, idx, txrows, base, plan>>
    /\ UNCHANGED <<searchVars, unitVars, configVars>>

\* The transaction ends without commit: the deferred Rollback runs and the
\* error is returned.
UpsertAbort(p) ==
    /\ db' = TxRollback(db, txrows[p])
    /\ last' = [op |-> "Upsert", batch |-> batch[p], pre |-> pre[p],
                post |-> db', premeta |-> meta, err |-> TRUE, done |-> idx[p]]
    /\ res' = [res EXCEPT ![p] = "err"]
    /\ pc' = [pc EXCEPT ![p] = "idle"]
    /\ txrows' = [txrows EXCEPT ![p] = <<>>]
    /\ idx' = [idx EXCEPT ![p] = 0]
    /\ batch' = [batch EXCEPT ![p] = <<>>]
    /\ pre' = [pre EXCEPT ![p] = EmptyBag]

\* One iteration of the loop over msgs: tx.Exec of the statement for the next
\* message, which either succeeds or returns an error.
UpsertExec(p) ==
    /\ pc[p] = "tx"
    /\ idx[p] < Len(batch[p])
    /\ \E ok \in BOOLEAN :
         IF ok
         THEN /\ txrows' = [txrows EXCEPT ![p] = Append(@, RowOf(batch[p][idx[p] + 1]))]
              /\ idx' = [idx EXCEPT ![p] = @ + 1]
              /\ UNCHANGED <<db, last, res, pc, batch, pre>>
         ELSE UpsertAbort(p)
    /\ UNCHANGED <<meta, repeat, base, plan>>
    /\ UNCHANGED <<searchVars, unitVars, configVars>>

\* return tx.Commit(ctx) after the last message.
UpsertCommit(p) ==
    /\ pc[p] = "tx"
    /\ idx[p] = Len(batch[p])
    /\ \E ok \in BOOLEAN :
         IF ok
         THEN /\ db' = TxCommit(db, pre[p], txrows[p])
              /\ last' = [op |-> "Upsert", batch |-> batch[p], pre |-> pre[p],
                          post |-> db', premeta |-> meta, err |-> FALSE,
                          done |-> idx[p]]
              /\ res' = [res EXCEPT ![p] = "ok"]
              /\ pc' = [pc EXCEPT ![p] = "idle"]
              /\ txrows' = [txrows EXCEPT ![p] = <<>>]
              /\ idx' = [idx EXCEPT ![p] = 0]
              /\ batch' = [batch EXCEPT ![p] = <<>>]
              /\ pre' = [pre EXCEPT ![p] = EmptyBag]
         ELSE UpsertAbort(p)
    /\ UNCHANGED <<meta, repeat, base, plan>>
    /\ UNCHANGED <<searchVars, unitVars, configVars>>

Upsert(p) == \E b \in Batches : UpsertStart(p, b)

-----------------------------------------------------------------------------
(* pgStore.PruneMissing and pgStore.SetMeta: one statement each.            *)

\* A variant of the DELETE without its profile condition.
DeleteMissingAnyProfile(t, profile, keepIDs) ==
    LET keep == {x \in BagToSet(t) : x.message_id \in keepIDs}
    IN  [x \in keep |-> t[x]]

\* DELETE FROM tb_messages WHERE profile = $1 AND message_id <> ALL($2).
DeleteMissing(t, profile, keepIDs) ==
    LET keep == {x \in BagToSet(t) :
                    ~(x.profile = profile /\ x.message_id \notin keepIDs)}
    IN  [x \in keep |-> t[x]]

\* A variant of PruneMissing without the early return on an empty keep-list.
PruneTableNoGuard(t, profile, keepIDs) == DeleteMissing(t, profile, keepIDs)

\* The table PruneMissing leaves when its statement succeeds.
PruneTable(t, profile, keepIDs) ==
    IF keepIDs = {} THEN t ELSE DeleteMissing(t, profile, keepIDs)

PruneMissing ==
    /\ \A p \in Procs : pc[p] = "idle"
    /\ \E profile \in Profiles, keepIDs \in KeepLists, ok \in BOOLEAN :
         /\ db' = IF ok \/ keepIDs = {} THEN PruneTable(db, profile, keepIDs) ELSE db
         /\ last' = [op |-> "PruneMissing", profile |-> profile, keepIDs |-> keepIDs,
                     pre |-> db, post |-> db', premeta |-> meta,
                     err |-> (~ok /\ keepIDs # {})]
    /\ repeat' = FALSE
    /\ UNCHANGED <<meta, pc, batch, idx, txrows, pre, res, base, plan>>
    /\ UNCHANGED <<searchVars, unitVars, configVars>>

\* INSERT INTO tb_meta ... ON CONFLICT (key) DO UPDATE SET val = EXCLUDED.val.
SetMeta ==
    /\ \A p \in Procs : pc[p] = "idle"
    /\ \E k \in MetaKeys, v \in MetaVals, ok \in BOOLEAN :
         /\ meta' = IF ok THEN [x \in DOMAIN meta \cup {k} |->
                                   IF x = k THEN v ELSE meta[x]]
                    ELSE meta
         /\ last' = [op |-> "SetMeta", pre |-> db, post |-> db, premeta |-> meta,
                     err |-> ~ok]
    /\ repeat' = FALSE
    /\ UNCHANGED <<db, pc, batch, idx, txrows, pre, res, base, plan>>
    /\ UNCHANGED <<searchVars, unitVars, configVars>>

-----------------------------------------------------------------------------
(* The store used by one caller at a time.                                  *)

EmptyFn == [x \in {} |-> x]

StoreIdle ==
    /\ db = EmptyBag
    /\ meta = EmptyFn
    /\ pc = [p \in Procs |-> "idle"]
    /\ batch = [p \in Procs |-> <<>>]
    /\ idx = [p \in Procs |-> 0]
    /\ txrows = [p \in Procs |-> <<>>]
    /\ pre = [p \in Procs |-> EmptyBag]
    /\ res = [p \in Procs |-> "none"]
    /\ last = NoCall
    /\ repeat = FALSE
    /\ base = EmptyBag
    /\ plan = [p \in Procs |-> <<>>]

\* The locals of the loop of searchMailbox before the first iteration, and
\* with seen dropped the value it returns.
Returned(found) == [found |-> found, seen |-> 0, stop |-> FALSE]
NoLoop == Returned(<<>>)

\* No command of the search pipeline runs.
SearchUnused ==
    /\ files = <<>>
    /\ now = 0
    /\ cacheFile = [exists |-> FALSE, Folders |-> EmptyFn]
    /\ run = [cmd |-> "none"]
    /\ spc = "idle"
    /\ fidx = 1
    /\ cache = [exists |-> FALSE, Folders |-> EmptyFn]
    /\ changed = FALSE
    /\ hits = <<>>
    /\ seenKeys = {}
    /\ more = <<>>
    /\ full = NoLoop
    /\ scans = <<>>
    /\ dec = <<>>
    /\ dropped = 0
    /\ saves = 0
    /\ out = [err |-> "none", hits |-> <<>>, save |-> "none"]
    /\ nops = 0
    /\ profilesIni = [readable |-> FALSE, entries |-> <<>>]
    /\ prefsJs = [readable |-> FALSE, entries |-> <<>>]

\* No pure function has been applied and no step-wise scan runs.
NoFcall == [fn |-> "none"]

NoScan == [pos |-> "idle"]

UnitUnused == fcall = NoFcall /\ scan = NoScan

InitStore == StoreIdle /\ SearchUnused /\ UnitUnused

NextStore ==
    \/ Upsert(1)
    \/ UpsertExec(1)
    \/ UpsertCommit(1)
    \/ PruneMissing
    \/ SetMeta

SpecStore == InitStore /\ [][NextStore]_vars

-----------------------------------------------------------------------------
(* Two callers upserting concurrently, each in its own transaction.         *)

RECURSIVE RowsOf(_)
\* The rows a batch writes, in order.
RowsOf(b) == IF b = <<>> THEN <<>> ELSE <<RowOf(Head(b))>> \o RowsOf(Tail(b))

KeyOf(r) == <<r.profile, r.message_id>>

KeysOf(b) == {KeyOf(RowOf(b[i])) : i \in 1..Len(b)}

MaxConcBatch == 2

\* Committed tables the concurrent callers start from: empty, and one left by
\* an earlier Upsert.
BaseTables ==
    { EmptyBag,
      ApplyAll(EmptyBag, RowsOf(<<Msg("p1", <<97, 0>>, <<121>>, 2, <<50>>),
                                  Msg("p2", <<98>>, <<122>>, 0, <<63>>)>>)) }

InitConc ==
    /\ base \in BaseTables
    /\ db = base
    /\ plan \in {f \in [Procs -> SeqsUpTo(StoreMsgs, MaxConcBatch) \ {<<>>}] :
                    KeysOf(f[1]) \cap KeysOf(f[2]) = {}}
    /\ meta = EmptyFn
    /\ pc = [p \in Procs |-> "idle"]
    /\ batch = [p \in Procs |-> <<>>]
    /\ idx = [p \in Procs |-> 0]
    /\ txrows = [p \in Procs |-> <<>>]
    /\ pre = [p \in Procs |-> EmptyBag]
    /\ res = [p \in Procs |-> "none"]
    /\ last = NoCall
    /\ repeat = FALSE
    /\ SearchUnused
    /\ UnitUnused

\* Client p calls Upsert with its batch, once.
UpsertPlanned(p) == res[p] = "none" /\ UpsertStart(p, plan[p])

NextConc ==
    \E p \in Procs :
        \/ UpsertPlanned(p)
        \/ UpsertExec(p)
        \/ UpsertCommit(p)

SpecConc == InitConc /\ [][NextConc]_vars

-----------------------------------------------------------------------------
(* Strings of the search pipeline.                                          *)

SP == 32
Bar == 124

\* strings.ToLower on ASCII bytes.
ToLower(s) == [i \in 1..Len(s) |-> IF s[i] >= 65 /\ s[i] <= 90 THEN s[i] + 32 ELSE s[i]]

\* strings.Contains(s, sub).
Contains(s, sub) ==
    \E k \in 0..(Len(s) - Len(sub)) : \A j \in 1..Len(sub) : s[k + j] = sub[j]

\* strings.HasPrefix(s, prefix).
HasPrefix(s, prefix) ==
    Len(prefix) <= Len(s) /\ \A j \in 1..Len(prefix) : s[j] = prefix[j]

RECURSIVE Fields(_)
\* strings.Fields(s): the maximal runs of non-space bytes, in order.
Fields(s) ==
    IF s = <<>> THEN <<>>
    ELSE IF Head(s) = SP THEN Fields(Tail(s))
    ELSE LET stop == IF \E k \in 1..Len(s) : s[k] = SP
                     THEN (CHOOSE k \in 1..Len(s) :
                               s[k] = SP /\ \A j \in 1..(k - 1) : s[j] # SP) - 1
                     ELSE Len(s)
         IN  <<SubSeq(s, 1, stop)>> \o Fields(SubSeq(s, stop + 1, Len(s)))

RECURSIVE Join(_, _)
\* strings.Join(parts, sep).
Join(parts, sep) ==
    IF parts = <<>> THEN <<>>
    ELSE IF Len(parts) = 1 THEN parts[1]
    ELSE parts[1] \o sep \o Join(Tail(parts), sep)

\* a < b for Go strings: bytewise lexicographic order.
StrLess(a, b) ==
    \E k \in 1..(Len(b)) :
        /\ \A j \in 1..(k - 1) : j <= Len(a) /\ a[j] = b[j]
        /\ (k > Len(a) \/ (k <= Len(a) /\ a[k] < b[k]))
        /\ k - 1 <= Len(a)

\* makeMatcher(q, fuzzy) applied to s.
\* A variant whose substring matcher does not lower-case the query.
makeMatcherCaseSensitive(q, fuzzy, s) ==
    IF ~fuzzy
    THEN Contains(s, q)
    ELSE LET tokens == Fields(ToLower(q))
         IN  \A t \in 1..Len(tokens) : Contains(s, tokens[t])

makeMatcher(q, fuzzy, s) ==
    IF ~fuzzy
    THEN Contains(s, ToLower(q))
    ELSE LET tokens == Fields(ToLower(q))
         IN  \A t \in 1..Len(tokens) : Contains(s, tokens[t])

\* The predicate buildFolderIndex and buildIndex scan with.
MatchAll == [q |-> <<>>, fuzzy |-> FALSE, all |-> TRUE]

\* A matcherFunc value applied to s.
Matches(m, s) == m.all \/ makeMatcher(m.q, m.fuzzy, s)

-----------------------------------------------------------------------------
(* Messages and their extraction.                                           *)

TicksPerMinute == 2

\* parseDateFlexible: the modelled Date headers that parse are one digit d
\* (byte 49..57), denoting the instant d - '0' in clock ticks.
DateParses(h) == Len(h) = 1 /\ h[1] >= 49 /\ h[1] <= 57

ParsedDate(h) == h[1] - 48

\* t.In(time.Local).Format("2006-01-02 15:04"): the minute of the instant.
FormatMinute(t) == <<48 + ((t + TicksPerMinute - 1) \div TicksPerMinute)>>

\* firstNonEmptyLine on a body of one line: the trimmed line (truncate leaves
\* a line of at most 160 bytes as it is).
firstNonEmptyLine(body) ==
    LET keep == {k \in 1..Len(body) : body[k] # SP}
    IN  IF keep = {} THEN <<>>
        ELSE SubSeq(body, CHOOSE k \in keep : \A j \in keep : k <= j,
                          CHOOSE k \in keep : \A j \in keep : k >= j)

\* strings.TrimSpace.
TrimSpace(s) == firstNonEmptyLine(s)

\* parseMessage on a well-formed message: the summary.
parseMessage(raw, folderName) ==
    [Folder    |-> folderName,
     Subject   |-> TrimSpace(raw.subject),
     From      |-> TrimSpace(raw.from),
     Date      |-> IF DateParses(raw.date) THEN FormatMinute(ParsedDate(raw.date))
                   ELSE raw.date,
     MessageID |-> raw.messageID,
     Snippet   |-> firstNonEmptyLine(raw.body),
     When      |-> IF DateParses(raw.date) THEN ParsedDate(raw.date) ELSE 0,
     Account   |-> <<>>,
     Search    |-> <<>>]

\* parseMessage on a well-formed message: the search text.
searchTextOf(raw) ==
    ToLower(Join(<<raw.subject, raw.from, raw.date, raw.body>>, <<SP>>))

\* A variant of the date range that also compares an unset timestamp.
OutOfRangeUnsetToo(when, since, till) ==
    \/ (since # 0 /\ when < since)
    \/ (till # 0 /\ when > till)

\* The since/till tests of searchMailbox and of filterMsgs: a summary is
\* skipped when its timestamp is set and lies before since or after till.
OutOfRange(when, since, till) ==
    \/ (since # 0 /\ when # 0 /\ when < since)
    \/ (till # 0 /\ when # 0 /\ when > till)

\* The variant of the scan loop that counts matched messages against the cap.
ScanStopsCountingHits(seen, nhits, maxMessages, tailCount) ==
    maxMessages > 0 /\ nhits >= maxMessages /\ tailCount = 0

\* The cap test of the scan loop, after seen++.
ScanStops(seen, nhits, maxMessages, tailCount) ==
    maxMessages > 0 /\ seen > maxMessages /\ tailCount = 0

\* A variant of the window that evicts the newest hit instead of the oldest.
TrimHitsDropNewest(added, limit, tailCount) ==
    IF tailCount > 0 /\ Len(added) > tailCount THEN SubSeq(added, 1, Len(added) - 1)
    ELSE IF tailCount = 0 /\ limit > 0 /\ Len(added) > limit THEN Tail(added)
    ELSE added

\* After hits = append(hits, summary): hits = hits[1:] when the tail window,
\* or without one the limit, is exceeded.
TrimHits(added, limit, tailCount) ==
    IF tailCount > 0 /\ Len(added) > tailCount THEN Tail(added)
    ELSE IF tailCount = 0 /\ limit > 0 /\ Len(added) > limit THEN Tail(added)
    ELSE added

RECURSIVE ScanLoop(_, _, _, _, _, _, _, _, _, _, _)
\* The loop of searchMailbox over the entries the reader still has to return,
\* with the hits found and the number of messages seen so far.
ScanLoop(entries, name, match, limit, since, till, maxMessages, accountLabel, tailCount, found, seen) ==
    IF entries = <<>> THEN found
    ELSE
      LET raw == Head(entries)
          rest == Tail(entries)
          seen1 == seen + 1
      IN  IF ScanStops(seen1, Len(found), maxMessages, tailCount) THEN found
          ELSE IF raw.kind = "bad"
          THEN ScanLoop(rest, name, match, limit, since, till, maxMessages,
                        accountLabel, tailCount, found, seen1)
          ELSE
            LET parsed == parseMessage(raw, name)
                text == searchTextOf(raw)
                summary == [parsed EXCEPT
                               !.Account = IF accountLabel # <<>> THEN accountLabel ELSE @,
                               !.Search = text]
                skip == OutOfRange(parsed.When, since, till)
                kept == TrimHits(Append(found, summary), limit, tailCount)
            IN  IF skip \/ ~Matches(match, text)
                THEN ScanLoop(rest, name, match, limit, since, till, maxMessages,
                              accountLabel, tailCount, found, seen1)
                ELSE ScanLoop(rest, name, match, limit, since, till, maxMessages,
                              accountLabel, tailCount, kept, seen1)

\* searchMailbox on a mailbox that opened: its result.
searchMailbox(entries, name, match, limit, since, till, maxMessages, accountLabel, tailCount) ==
    ScanLoop(entries, name, match, limit, since, till, maxMessages, accountLabel,
             tailCount, <<>>, 0)

\* One iteration of the loop of searchMailbox on the message the reader
\* returned: the hits and seen after it, and whether the loop breaks.
ScanStep(raw, name, match, limit, since, till, maxMessages, accountLabel, tailCount, found, seen) ==
    LET seen1 == seen + 1
    IN  IF ScanStops(seen1, Len(found), maxMessages, tailCount)
        THEN [found |-> found, seen |-> seen1, stop |-> TRUE]
        ELSE IF raw.kind = "bad"
        THEN [found |-> found, seen |-> seen1, stop |-> FALSE]
        ELSE
          LET parsed == parseMessage(raw, name)
              text == searchTextOf(raw)
              summary == [parsed EXCEPT
                             !.Account = IF accountLabel # <<>> THEN accountLabel ELSE @,
                             !.Search = text]
              skip == OutOfRange(parsed.When, since, till)
              kept == TrimHits(Append(found, summary), limit, tailCount)
          IN  [found |-> IF skip \/ ~Matches(match, text) THEN found ELSE kept,
               seen |-> seen1, stop |-> FALSE]

\* hasMissingDates(msgs).
hasMissingDates(msgs) == \E k \in 1..Len(msgs) : msgs[k].When = 0

-----------------------------------------------------------------------------
(* The mail profile: mailboxes, their files and the cache file.             *)

MaxClock == 2
MaxOps == 2
TicksPerSecond == 2

\* listMailboxes: the profile's mailboxes, sorted by name.
Boxes ==
    << [Name |-> <<73>>, Path |-> <<47, 73>>],
       [Name |-> <<74>>, Path |-> <<47, 74>>] >>

Folders == 1..Len(Boxes)

\* profiles.ini as the mail client wrote it: one profile, "P", the default.
ProfilesIni ==
    [readable |-> TRUE,
     entries |-> << [Name |-> <<80>>, Path |-> <<100>>, Default |-> TRUE] >>]

\* prefs.js as the mail client wrote it: one account, whose identity has the
\* address "U" and whose server stores its mail under the first mailbox.
PrefsJs ==
    [readable |-> TRUE,
     entries |-> << [useremail |-> <<85>>, directory |-> <<47, 73>>] >>]

\* resolveProfile(name) on what loadProfiles reads: the position of the
\* profile in profiles.ini, 0 when it returns an error.  The paths are single
\* names, so filepath.Base leaves them as they are; no name given is an
\* absolute path or a directory under the root.
resolveProfile(ini, name) ==
    IF ~ini.readable THEN 0
    ELSE
      LET ps == ini.entries
          nameOf(i) == IF ps[i].Name = <<>> THEN ps[i].Path ELSE ps[i].Name
          defaults == {i \in 1..Len(ps) : ps[i].Default}
          named == {i \in 1..Len(ps) :
                       \/ ToLower(nameOf(i)) = ToLower(name)
                       \/ ToLower(ps[i].Path) = ToLower(name)}
          first(S) == CHOOSE i \in S : \A j \in S : i <= j
      IN  IF name = <<>>
          THEN IF defaults # {} THEN first(defaults)
               ELSE IF Len(ps) > 0 THEN 1 ELSE 0
          ELSE IF named # {} THEN first(named) ELSE 0

\* loadAccountDirIndex on what parsePrefs reads, looked up at an address:
\* the storage directories of the identities with that address, lower-cased.
loadAccountDirIndex(prefs, email) ==
    {prefs[i].directory :
        i \in {j \in 1..Len(prefs) : /\ prefs[j].directory # <<>>
                                      /\ prefs[j].useremail # <<>>
                                      /\ ToLower(prefs[j].useremail) = email}}

\* idx[accountEmail] of the command in progress.
AccountDirs(email) == loadAccountDirIndex(prefsJs.entries, email)

Raw(subject, date, id) ==
    [kind |-> "msg", subject |-> subject, from |-> <<102>>, date |-> date,
     messageID |-> id, body |-> subject]

\* A message whose header block does not parse.
BadRaw == [kind |-> "bad"]

RawA == Raw(<<97>>, <<49>>, <<120>>)
RawB == Raw(<<98>>, <<51>>, <<121>>)
RawNoDate == Raw(<<97>>, <<63>>, <<122>>)
\* A message dated after every till used in the scans.
RawLate == Raw(<<97>>, <<57>>, <<118>>)

\* A variant that opens the mailbox for writing and truncates it.
osOpenTruncating(f) == IF f.readable THEN [f EXCEPT !.entries = <<>>] ELSE f

\* os.Open(path): the file is opened O_RDONLY and stays as it is.
osOpen(f) == f

\* os.ReadFile(path): the file is read and stays as it is.
osReadFile(f) == f

\* fi.ModTime().Unix().
Unix(t) == t \div TicksPerSecond

\* fi.Size(): every modelled entry has the same length.
FileSize(f) == Len(f.entries)

NoFile == [exists |-> FALSE, Folders |-> EmptyFn]

\* loadIndex (spec-modelled): a missing or corrupt file yields no cache.
loadIndex(file) == IF file.exists THEN file ELSE NoFile

\* accountForPath(path, dirToAccount), dirToAccount holding the directories
\* of accountEmail (it is empty when the search is not account-scoped).
accountForPath(path, accountEmail) ==
    IF \E d \in AccountDirs(accountEmail) : accountEmail # <<>> /\ HasPrefix(path, d)
    THEN accountEmail ELSE <<>>

\* The candidate folders: account scoping, then the folder filter.
Filtered(accountEmail, folderLike) ==
    SelectSeq([k \in Folders |-> k],
              LAMBDA k :
                 /\ (accountEmail # <<>> =>
                        \E d \in AccountDirs(accountEmail) : HasPrefix(Boxes[k].Path, d))
                 /\ (folderLike # <<>> =>
                        Contains(ToLower(Boxes[k].Name), ToLower(folderLike))))

\* A variant of the staleness test that does not compare the size.
FreshIgnoringSize(entry, mtime, size) ==
    /\ entry.ModTime = Unix(mtime)
    /\ entry.Complete
    /\ ~hasMissingDates(entry.Messages)

\* The staleness test of App.search on an entry that is present.
Fresh(entry, mtime, size) ==
    /\ entry.ModTime = Unix(mtime)
    /\ entry.Size = size
    /\ entry.Complete
    /\ ~hasMissingDates(entry.Messages)

RECURSIVE filterMsgs(_, _, _, _, _, _, _)
\* filterMsgs of App.search.
filterMsgs(msgs, targetAccount, pathAccount, accountEmail, since, till, match) ==
    IF msgs = <<>> THEN <<>>
    ELSE
      LET m0 == Head(msgs)
          m1 == IF m0.Account = <<>>
                THEN IF targetAccount # <<>> THEN [m0 EXCEPT !.Account = targetAccount]
                     ELSE IF pathAccount # <<>> THEN [m0 EXCEPT !.Account = pathAccount]
                     ELSE m0
                ELSE m0
          im == IF m1.Search = <<>>
                THEN [m1 EXCEPT !.Search =
                         ToLower(Join(<<m1.Subject, m1.From, m1.Snippet>>, <<SP>>))]
                ELSE m1
          skip == \/ OutOfRange(im.When, since, till)
                  \/ (accountEmail # <<>> /\ ToLower(im.Account) # accountEmail)
          rest == filterMsgs(Tail(msgs), targetAccount, pathAccount, accountEmail,
                             since, till, match)
      IN  IF ~skip /\ Matches(match, im.Search) THEN <<im>> \o rest ELSE rest

\* The de-duplication key of a hit.
DedupKey(m) ==
    LET key == m.MessageID \o <<Bar>> \o m.Subject \o <<Bar>> \o m.Date \o <<Bar>> \o m.Folder
    IN  IF key = <<Bar, Bar, Bar>> THEN m.Date \o <<Bar>> \o m.Snippet ELSE key

\* A variant that forgets to record the key of an appended hit.
RecordKeyForgotten(seen, key) == seen

\* seenKeys[key] = struct{}{}.
RecordKey(seen, key) == seen \cup {key}

RECURSIVE Dedup(_, _)
\* The loop that appends the folder's matches to hits, skipping seen keys.
\* acc is [hits, seen, dropped].
Dedup(acc, msgs) ==
    IF msgs = <<>> THEN acc
    ELSE LET m == Head(msgs)
             key == DedupKey(m)
         IN  IF key \in acc.seen
             THEN Dedup([acc EXCEPT !.dropped = @ + 1], Tail(msgs))
             ELSE Dedup([hits |-> Append(acc.hits, m),
                         seen |-> RecordKey(acc.seen, key),
                         dropped |-> acc.dropped], Tail(msgs))

\* A variant of the comparison that puts the earlier timestamp first.
SortLessAscending(a, b) ==
    IF a.When = 0 /\ b.When = 0 THEN StrLess(b.Date, a.Date)
    ELSE IF a.When = 0 THEN FALSE
    ELSE IF b.When = 0 THEN TRUE
    ELSE a.When < b.When

\* The comparison function of the final sort.
SortLess(a, b) ==
    IF a.When = 0 /\ b.When = 0 THEN StrLess(b.Date, a.Date)
    ELSE IF a.When = 0 THEN FALSE
    ELSE IF b.When = 0 THEN TRUE
    ELSE a.When > b.When

\* The orders sort.Slice may leave the hits in: sort.Slice is not stable, so
\* hits that compare equal may come out in any order.
SortedOrders(h) ==
    LET n == Len(h)
        perms == {q \in [1..n -> 1..n] : \A x, y \in 1..n : x # y => q[x] # q[y]}
        ok(q) == \A x, y \in 1..n : x < y => ~SortLess(h[q[y]], h[q[x]])
    IN  {[k \in 1..n |-> h[q[k]]] : q \in {r \in perms : ok(r)}}

\* hits[:limit] when limit > 0 and len(hits) > limit.
Truncate(h, limit) == IF limit > 0 /\ Len(h) > limit THEN SubSeq(h, 1, limit) ELSE h

-----------------------------------------------------------------------------
(* App.search, one step per file system access.                             *)

MaxFileLen == 2

Queries == {<<97>>, <<102>>}
Limits == {0, 1, 2}
\* The limits of the searches that are run: none, and one the cached matches
\* of a folder can fall short of.
SearchLimits == {0, 2}
Tails == {0, 1}
\* --max-messages with --tail: neither, or one of them.
ScanLimits == {<<0, 0>>, <<1, 0>>} \cup {<<0, t>> : t \in Tails}
Sinces == {0}
Tills == {0}
AccountInputs == {<<>>}
FolderLikes == {<<>>}
\* --profile of the searches and index builds: absent, the default profile.
ProfileInputs == {<<>>}
\* The folder filter of a restricted index build: the second mailbox only.
RestrictedFolderLikes == {<<74>>}

NoRun == [cmd |-> "none"]
\* save records how the command's call of saveIndex ended; no code reads it.
NoOut == [err |-> "none", hits |-> <<>>, save |-> "none"]
\* The fingerprint a mailbox file has: modification time in seconds and size.
Fingerprint(f) == [set |-> TRUE, ModTime |-> Unix(f.mtime), Size |-> FileSize(f)]
NoFingerprint == [set |-> FALSE, ModTime |-> 0, Size |-> 0]

\* The folders of a list of candidate folders.
FolderSet(ks) == {ks[j] : j \in 1..Len(ks)}

\* The entry a cache file holds for folder k, if any.
EntryOf(file, k) ==
    IF file.exists /\ k \in DOMAIN file.Folders THEN <<file.Folders[k]>> ELSE <<>>

\* What the loop body saw and did for one folder; no code reads it.  readAt
\* is the fingerprint the file had when buildFolderIndex read its messages,
\* prior the entry the cache file held, when an index build began, for a
\* folder outside the build's restriction.
NoDec == [done |-> FALSE, src |-> "none", present |-> FALSE, fpEqual |-> FALSE,
          complete |-> FALSE, fullScan |-> FALSE, noMissing |-> FALSE,
          useCache |-> FALSE, nmore |-> 0, readAt |-> NoFingerprint,
          prior |-> <<>>]

\* The arguments of a search.
SearchRuns ==
    {[cmd |-> "search", query |-> q, fuzzy |-> FALSE, limit |-> l, since |-> s,
      till |-> t, maxMessages |-> c[1], noIndex |-> n, tailCount |-> c[2],
      accountEmail |-> a, folderLike |-> fl, profileName |-> p] :
        q \in Queries, l \in SearchLimits, s \in Sinces, t \in Tills, c \in ScanLimits,
        n \in BOOLEAN, a \in AccountInputs, fl \in FolderLikes, p \in ProfileInputs}

\* The arguments of an index build.
IndexRuns ==
    [cmd : {"index"}, tailCount : Tails, accountEmail : AccountInputs,
     folderLike : FolderLikes, profileName : ProfileInputs]

\* The arguments of an index build restricted by a folder filter.
RestrictedIndexRuns ==
    [cmd : {"index"}, tailCount : Tails, accountEmail : AccountInputs,
     folderLike : RestrictedFolderLikes, profileName : ProfileInputs]

CurFolder == Filtered(run.accountEmail, run.folderLike)[fidx]

\* targetAccount of the loop body.
TargetAccount(k) ==
    IF run.accountEmail # <<>> THEN run.accountEmail
    ELSE accountForPath(Boxes[k].Path, run.accountEmail)

Matcher == [q |-> run.query, fuzzy |-> run.fuzzy, all |-> FALSE]

\* filterMsgs with the arguments of the search in progress.
FilterFor(k, msgs) ==
    filterMsgs(msgs, TargetAccount(k), accountForPath(Boxes[k].Path, run.accountEmail),
               run.accountEmail, run.since, run.till, Matcher)

\* accountEmail = strings.ToLower(strings.TrimSpace(accountEmail)).
Normalized(r) == [r EXCEPT !.accountEmail = ToLower(TrimSpace(@))]

\* The files a command reads before it lists the folders: profiles.ini by
\* resolveProfile and, when the profile resolved and the command is
\* account-scoped, prefs.js by loadAccountDirIndex.
ReadConfig(r) ==
    /\ profilesIni' = osOpen(profilesIni)
    /\ prefsJs' = IF resolveProfile(profilesIni, r.profileName) # 0 /\ r.accountEmail # <<>>
                  THEN osReadFile(prefsJs) ELSE prefsJs

\* The start of a command: arguments resolved, the folder loop not yet entered.
Begin(r) ==
    /\ spc = "idle"
    /\ nops < MaxOps
    /\ nops' = nops + 1
    /\ run' = r
    /\ changed' = FALSE
    /\ hits' = <<>>
    /\ seenKeys' = {}
    /\ more' = <<>>
    /\ full' = NoLoop
    /\ scans' = [k \in Folders |-> 0]
    /\ dec' = [k \in Folders |->
                  [NoDec EXCEPT !.prior =
                      IF r.cmd = "index" /\ k \notin FolderSet(Filtered(r.accountEmail, r.folderLike))
                      THEN EntryOf(cacheFile, k) ELSE <<>>]]
    /\ dropped' = 0
    /\ saves' = 0
    /\ fidx' = 1

\* A variant that loads the cache file whatever noIndex is.
loadCacheAlways(noIndex, file) ==
    [exists |-> TRUE, Folders |-> loadIndex(file).Folders]

\* The in-memory cache of a search: nil when noIndex is set, else what
\* loadIndex returns, or a new empty IndexFile when it returns nil.
loadCache(noIndex, file) ==
    IF noIndex THEN NoFile ELSE [exists |-> TRUE, Folders |-> loadIndex(file).Folders]

\* App.search up to the folder loop: the profile is resolved, the account and
\* folder filters applied, then the cache is loaded unless noIndex is set.
SearchStart ==
    \E r \in SearchRuns :
        LET n == Normalized(r)
        IN  /\ Begin(n)
            /\ ReadConfig(n)
            /\ IF resolveProfile(profilesIni, n.profileName) = 0
               THEN /\ out' = [err |-> "profile", hits |-> <<>>, save |-> "none"]
                    /\ spc' = "idle"
                    /\ cache' = NoFile
               ELSE IF (n.accountEmail # <<>>
                          /\ (~prefsJs.readable \/ AccountDirs(n.accountEmail) = {}))
                       \/ Filtered(n.accountEmail, n.folderLike) = <<>>
               THEN /\ out' = [err |-> "no folders", hits |-> <<>>, save |-> "none"]
                    /\ spc' = "idle"
                    /\ cache' = NoFile
               ELSE /\ out' = NoOut
                    /\ spc' = "folder"
                    /\ cache' = loadCache(n.noIndex, cacheFile)
            /\ UNCHANGED <<files, now, cacheFile>>
            /\ UNCHANGED <<storeVars, unitVars>>

\* The end of the loop body: the folder's matches are appended to hits unless
\* their key was seen, and the loop moves on.
AppendFolder(k, msgs, d, src) ==
    LET acc == Dedup([hits |-> hits, seen |-> seenKeys, dropped |-> dropped], msgs)
    IN  /\ hits' = acc.hits
        /\ seenKeys' = acc.seen
        /\ dropped' = acc.dropped
        /\ dec' = [dec EXCEPT ![k] = [d EXCEPT !.src = src, !.done = TRUE]]
        /\ fidx' = fidx + 1
        /\ spc' = "folder"
        /\ more' = <<>>
        /\ full' = NoLoop

needRefreshIgnoringLimit(noIndex, useCache, nmore, limit, complete) ==
    noIndex \/ ~useCache \/ nmore = 0 \/ (useCache /\ ~complete)

\* needRefresh, nmore being len(more) and complete folderIdx.Complete.
needRefresh(noIndex, useCache, nmore, limit, complete) ==
    \/ noIndex
    \/ ~useCache
    \/ nmore = 0
    \/ (limit > 0 /\ nmore < limit)
    \/ (useCache /\ ~complete)

\* The loop body up to needRefresh: os.Stat, the staleness test, the cached
\* matches.  A folder that needs no refresh is finished here.
SearchFolder ==
    /\ run.cmd = "search"
    /\ spc = "folder"
    /\ fidx <= Len(Filtered(run.accountEmail, run.folderLike))
    /\ LET k == CurFolder
           f == files[k]
           present == cache.exists /\ k \in DOMAIN cache.Folders
           entry == cache.Folders[k]
           useCache == /\ cache.exists
                       /\ ~run.noIndex
                       /\ present
                       /\ Fresh(entry, f.mtime, FileSize(f))
           cached == IF useCache THEN FilterFor(k, entry.Messages) ELSE <<>>
           refresh == needRefresh(run.noIndex, useCache, Len(cached), run.limit,
                                  present /\ entry.Complete)
           seen == [done |-> FALSE, src |-> "none",
                    present |-> present,
                    fullScan |-> present /\ entry.scanned.maxMessages = 0
                                         /\ entry.scanned.tailCount = 0,
                    fpEqual |-> present /\ entry.ModTime = Unix(f.mtime)
                                        /\ entry.Size = FileSize(f),
                    complete |-> present /\ entry.Complete,
                    noMissing |-> present /\ \A j \in 1..Len(entry.Messages) :
                                                 entry.Messages[j].When # 0,
                    useCache |-> useCache,
                    nmore |-> Len(cached),
                    readAt |-> NoFingerprint,
                    prior |-> dec[k].prior]
       IN  IF refresh
           THEN /\ more' = cached
                /\ spc' = "scan"
                /\ dec' = [dec EXCEPT ![k] = seen]
                /\ UNCHANGED <<hits, seenKeys, dropped, fidx, full>>
           ELSE AppendFolder(k, cached, seen, "cache")
    /\ UNCHANGED <<files, now, cacheFile, run, cache, changed, scans, saves, out, nops>>
    /\ UNCHANGED <<storeVars, unitVars, configVars>>

\* The refresh calls searchMailbox, with the matcher when noIndex is set and
\* from buildFolderIndex with the match-all predicate otherwise.  This step
\* is its os.Open: a mailbox that cannot be opened is logged and the folder
\* keeps the matches it has.
SearchScan ==
    /\ run.cmd = "search"
    /\ spc = "scan"
    /\ LET k == CurFolder
           f == files[k]
       IN  /\ scans' = [scans EXCEPT ![k] = @ + 1]
           /\ files' = [files EXCEPT ![k] = osOpen(@)]
           /\ IF ~f.readable
              THEN AppendFolder(k, more, dec[k], IF dec[k].useCache THEN "cache" ELSE "none")
              ELSE /\ full' = NoLoop
                   /\ spc' = "read"
                   /\ UNCHANGED <<hits, seenKeys, dropped, dec, fidx, more>>
    /\ UNCHANGED <<now, cacheFile, run, cache, changed, saves, out, nops>>
    /\ UNCHANGED <<storeVars, unitVars, configVars>>

\* One iteration of the loop of searchMailbox: reader.NextMessage() returns
\* the message that follows the ones already read, as the file holds it now,
\* or io.EOF.  When the loop ends a live search takes the hits, and
\* buildFolderIndex goes on to its os.Stat.
SearchRead ==
    /\ run.cmd = "search"
    /\ spc = "read"
    /\ LET k == CurFolder
           f == files[k]
           eof == full.seen >= Len(f.entries)
           step == IF run.noIndex
                   THEN ScanStep(f.entries[full.seen + 1], Boxes[k].Name, Matcher, 0,
                                 run.since, run.till, run.maxMessages,
                                 TargetAccount(k), run.tailCount, full.found, full.seen)
                   ELSE ScanStep(f.entries[full.seen + 1], Boxes[k].Name, MatchAll, 0,
                                 0, 0, run.maxMessages, TargetAccount(k),
                                 run.tailCount, full.found, full.seen)
       IN  IF eof \/ step.stop
           THEN IF run.noIndex
                THEN AppendFolder(k, full.found, dec[k], "live")
                ELSE /\ full' = Returned(full.found)
                     /\ spc' = "stat"
                     /\ dec' = [dec EXCEPT ![k].readAt = Fingerprint(f)]
                     /\ UNCHANGED <<hits, seenKeys, dropped, fidx, more>>
           ELSE /\ full' = step
                /\ UNCHANGED <<spc, hits, seenKeys, dropped, dec, fidx, more>>
    /\ UNCHANGED <<files, now, cacheFile, run, cache, changed, scans, saves, out, nops>>
    /\ UNCHANGED <<storeVars, unitVars, configVars>>

\* The FolderIndex buildFolderIndex returns for a scan result and the file's
\* os.Stat.  scanned records the cap and tail window the scan ran with; no
\* code reads it.
FolderIndexOf(f, msgs, maxMessages, tailCount) ==
    [ModTime |-> Unix(f.mtime), Size |-> FileSize(f), Messages |-> msgs,
     Complete |-> TRUE,
     scanned |-> [maxMessages |-> maxMessages, tailCount |-> tailCount]]

\* buildFolderIndex after its scan: os.Stat, the entry, and in App.search the
\* replacement of the cache entry and the filter over its messages.
SearchStat ==
    /\ run.cmd = "search"
    /\ spc = "stat"
    /\ LET k == CurFolder
           entry == FolderIndexOf(files[k], full.found, run.maxMessages, run.tailCount)
       IN  /\ cache' = [cache EXCEPT !.Folders =
                            [x \in DOMAIN @ \cup {k} |-> IF x = k THEN entry ELSE @[x]]]
           /\ changed' = TRUE
           /\ AppendFolder(k, FilterFor(k, entry.Messages), dec[k], "rescan")
    /\ UNCHANGED <<files, now, cacheFile, run, scans, saves, out, nops>>
    /\ UNCHANGED <<storeVars, unitVars, configVars>>

\* saveIndex (spec-modelled): the cache file is replaced atomically, or the
\* write fails and the file stays as it was.
saveIndex(file, c, ok) == IF ok THEN c ELSE file

\* After the loop: "No matches." returns at once; otherwise the cache is saved
\* if an entry was replaced (the error is dropped), the hits are sorted and
\* truncated.
SearchFinish ==
    /\ run.cmd = "search"
    /\ spc = "folder"
    /\ fidx > Len(Filtered(run.accountEmail, run.folderLike))
    /\ spc' = "idle"
    /\ IF hits = <<>>
       THEN /\ out' = [err |-> "", hits |-> <<>>, save |-> "none"]
            /\ UNCHANGED <<cacheFile, saves>>
       ELSE \E sorted \in SortedOrders(hits) :
              IF cache.exists /\ changed
              THEN \E ok \in BOOLEAN :
                     /\ cacheFile' = saveIndex(cacheFile, cache, ok)
                     /\ saves' = saves + 1
                     /\ out' = [err |-> "", hits |-> Truncate(sorted, run.limit),
                                save |-> IF ok THEN "ok" ELSE "failed"]
              ELSE /\ UNCHANGED <<cacheFile, saves>>
                   /\ out' = [err |-> "", hits |-> Truncate(sorted, run.limit),
                              save |-> "none"]
    /\ UNCHANGED <<files, now, run, fidx, cache, changed, hits, seenKeys, more, full,
                   scans, dec, dropped, nops>>
    /\ UNCHANGED <<storeVars, unitVars, configVars>>

-----------------------------------------------------------------------------
(* App.buildIndex, one step per file system access.                         *)

\* buildIndex up to its loop: the profile is resolved, the folder filters
\* applied, and the cache is a new, empty IndexFile.
IndexStart ==
    \E r \in IndexRuns :
        LET n == Normalized(r)
        IN  /\ Begin(n)
            /\ ReadConfig(n)
            /\ IF resolveProfile(profilesIni, n.profileName) = 0
               THEN /\ out' = [err |-> "profile", hits |-> <<>>, save |-> "none"]
                    /\ spc' = "idle"
                    /\ cache' = NoFile
               ELSE IF (n.accountEmail # <<>>
                          /\ (~prefsJs.readable \/ AccountDirs(n.accountEmail) = {}))
                       \/ Filtered(n.accountEmail, n.folderLike) = <<>>
               THEN /\ out' = [err |-> "no folders", hits |-> <<>>, save |-> "none"]
                    /\ spc' = "idle"
                    /\ cache' = NoFile
               ELSE /\ out' = NoOut
                    /\ spc' = "folder"
                    /\ cache' = [exists |-> TRUE, Folders |-> EmptyFn]
            /\ UNCHANGED <<files, now, cacheFile>>
            /\ UNCHANGED <<storeVars, unitVars>>

\* The same, for an index build restricted by a folder filter.
IndexStartRestricted ==
    \E r \in RestrictedIndexRuns :
        LET n == Normalized(r)
        IN  /\ Begin(n)
            /\ ReadConfig(n)
            /\ IF resolveProfile(profilesIni, n.profileName) = 0
               THEN /\ out' = [err |-> "profile", hits |-> <<>>, save |-> "none"]
                    /\ spc' = "idle"
                    /\ cache' = NoFile
               ELSE IF (n.accountEmail # <<>>
                          /\ (~prefsJs.readable \/ AccountDirs(n.accountEmail) = {}))
                       \/ Filtered(n.accountEmail, n.folderLike) = <<>>
               THEN /\ out' = [err |-> "no folders", hits |-> <<>>, save |-> "none"]
                    /\ spc' = "idle"
                    /\ cache' = NoFile
               ELSE /\ out' = NoOut
                    /\ spc' = "folder"
                    /\ cache' = [exists |-> TRUE, Folders |-> EmptyFn]
            /\ UNCHANGED <<files, now, cacheFile>>
            /\ UNCHANGED <<storeVars, unitVars>>

\* The scan of the loop body: searchMailbox with the match-all predicate and
\* tailCount passed as both the cap and the tail window.  This step is its
\* os.Open: a mailbox that cannot be opened is skipped.
IndexScan ==
    /\ run.cmd = "index"
    /\ spc = "folder"
    /\ fidx <= Len(Filtered(run.accountEmail, run.folderLike))
    /\ LET k == CurFolder
           f == files[k]
       IN  /\ scans' = [scans EXCEPT ![k] = @ + 1]
           /\ files' = [files EXCEPT ![k] = osOpen(@)]
           /\ IF ~f.readable
              THEN /\ fidx' = fidx + 1
                   /\ UNCHANGED <<spc, full, dec>>
              ELSE /\ full' = NoLoop
                   /\ spc' = "read"
                   /\ UNCHANGED <<fidx, dec>>
    /\ UNCHANGED <<now, cacheFile, run, cache, changed, hits, seenKeys, more,
                   dropped, saves, out, nops>>
    /\ UNCHANGED <<storeVars, unitVars, configVars>>

\* One iteration of the loop of searchMailbox called by buildIndex.
IndexRead ==
    /\ run.cmd = "index"
    /\ spc = "read"
    /\ LET k == CurFolder
           f == files[k]
           eof == full.seen >= Len(f.entries)
           step == ScanStep(f.entries[full.seen + 1], Boxes[k].Name, MatchAll, 0, 0, 0,
                            run.tailCount, run.accountEmail, run.tailCount,
                            full.found, full.seen)
       IN  IF eof \/ step.stop
           THEN /\ full' = Returned(full.found)
                /\ spc' = "stat"
                /\ dec' = [dec EXCEPT ![k].readAt = Fingerprint(f)]
           ELSE /\ full' = step
                /\ UNCHANGED <<spc, dec>>
    /\ UNCHANGED <<files, now, cacheFile, run, fidx, cache, changed, hits, seenKeys, more,
                   scans, dropped, saves, out, nops>>
    /\ UNCHANGED <<storeVars, unitVars, configVars>>

\* os.Stat after the scan, and the entry of the folder.
IndexStat ==
    /\ run.cmd = "index"
    /\ spc = "stat"
    /\ LET k == CurFolder
           entry == FolderIndexOf(files[k], full.found, run.tailCount, run.tailCount)
       IN  cache' = [cache EXCEPT !.Folders =
                        [x \in DOMAIN @ \cup {k} |-> IF x = k THEN entry ELSE @[x]]]
    /\ fidx' = fidx + 1
    /\ spc' = "folder"
    /\ full' = NoLoop
    /\ UNCHANGED <<files, now, cacheFile, run, changed, hits, seenKeys, more, scans,
                   dec, dropped, saves, out, nops>>
    /\ UNCHANGED <<storeVars, unitVars, configVars>>

\* return saveIndex(indexPath(profile), cache).
IndexFinish ==
    /\ run.cmd = "index"
    /\ spc = "folder"
    /\ fidx > Len(Filtered(run.accountEmail, run.folderLike))
    /\ spc' = "idle"
    /\ \E ok \in BOOLEAN :
          /\ cacheFile' = saveIndex(cacheFile, cache, ok)
          /\ out' = [err |-> IF ok THEN "" ELSE "save", hits |-> <<>>,
                     save |-> IF ok THEN "ok" ELSE "failed"]
    /\ saves' = saves + 1
    /\ UNCHANGED <<files, now, run, fidx, cache, changed, hits, seenKeys, more, full,
                   scans, dec, dropped, nops>>
    /\ UNCHANGED <<storeVars, unitVars, configVars>>

-----------------------------------------------------------------------------
(* The mail client writing to the mailboxes while the commands run.         *)

\* The mailboxes that receive mail while the commands run.
WriterFolders == {1}

WriterUnchanged ==
    /\ UNCHANGED <<cacheFile, run, spc, fidx, cache, changed, hits, seenKeys, more, full,
                   scans, dec, dropped, saves, out, nops>>
    /\ UNCHANGED <<storeVars, unitVars, configVars>>

\* A message is appended to a mailbox.
WriterAppend ==
    /\ now < MaxClock
    /\ now' = now + 1
    /\ \E k \in WriterFolders, r \in {RawNoDate} :
          /\ Len(files[k].entries) < MaxFileLen
          /\ files' = [files EXCEPT ![k] = [@ EXCEPT !.mtime = now',
                                                     !.late = nops > 0,
                                                     !.entries = Append(@, r)]]
    /\ WriterUnchanged

\* The last message of a mailbox is rewritten in place, the size unchanged.
WriterRewrite ==
    /\ now < MaxClock
    /\ now' = now + 1
    /\ \E k \in WriterFolders, r \in {BadRaw} :
          /\ Len(files[k].entries) >= 1
          /\ files[k].entries[Len(files[k].entries)] # r
          /\ files' = [files EXCEPT ![k] = [@ EXCEPT !.mtime = now',
                                                     !.late = nops > 0,
                                                     !.entries = [@ EXCEPT ![Len(@)] = r]]]
    /\ WriterUnchanged

-----------------------------------------------------------------------------
(* The search pipeline on one profile.                                      *)

\* A cache file left by a version that did not write the Complete flag.
LegacyCache ==
    [exists |-> TRUE, Folders |->
    [k \in {2} |-> [ModTime |-> 0, Size |-> 1,
                    Messages |-> searchMailbox(<<RawB>>, Boxes[2].Name, MatchAll, 0, 0, 0,
                                               0, <<>>, 0),
                    Complete |-> FALSE,
                    scanned |-> [maxMessages |-> 0, tailCount |-> 0]]]]

InitSearchIdle ==
    /\ run = NoRun
    /\ spc = "idle"
    /\ fidx = 1
    /\ cache = NoFile
    /\ changed = FALSE
    /\ hits = <<>>
    /\ seenKeys = {}
    /\ more = <<>>
    /\ full = NoLoop
    /\ scans = [k \in Folders |-> 0]
    /\ dec = [k \in Folders |-> NoDec]
    /\ dropped = 0
    /\ saves = 0
    /\ out = NoOut
    /\ nops = 0

InitSearch ==
    /\ StoreIdle
    /\ UnitUnused
    /\ InitSearchIdle
    /\ now = 0
    /\ files \in {[k \in Folders |-> [mtime |-> 0, late |-> FALSE,
                                      readable |-> k = 1 \/ r,
                                      entries |-> IF k = 1 THEN e ELSE <<RawB>>]] :
                     e \in {<<RawA, RawA>>, <<RawA>>}, r \in BOOLEAN}
    /\ cacheFile \in {NoFile, LegacyCache}
    /\ profilesIni = ProfilesIni
    /\ prefsJs = PrefsJs

NextSearch ==
    \/ SearchStart
    \/ SearchFolder
    \/ SearchScan
    \/ SearchRead
    \/ SearchStat
    \/ SearchFinish
    \/ IndexStart
    \/ IndexScan
    \/ IndexRead
    \/ IndexStat
    \/ IndexFinish
    \/ WriterAppend
    \/ WriterRewrite

SpecSearch == InitSearch /\ [][NextSearch]_vars

-----------------------------------------------------------------------------
(* Index builds, with and without a folder filter, on one profile.          *)

InitIndex == InitSearch

NextIndex ==
    \/ IndexStart
    \/ IndexStartRestricted
    \/ IndexScan
    \/ IndexRead
    \/ IndexStat
    \/ IndexFinish
    \/ WriterAppend
    \/ WriterRewrite

SpecIndex == InitIndex /\ [][NextIndex]_vars

-----------------------------------------------------------------------------
(* The pure functions of the pipeline applied to bounded inputs: the final  *)
(* sort and truncation of App.search, makeMatcher, and the date range as    *)
(* the three readers apply it.                                              *)

MaxHits == 4

\* Hits as parseMessage produces them: two with a parsed date (instants 1 and
\* 3), two whose Date header does not parse ("?" and "!").
RawBang == Raw(<<97>>, <<33>>, <<119>>)

SortPool == {parseMessage(r, Boxes[1].Name) : r \in {RawA, RawB, RawNoDate, RawBang}}

HitLists == SeqsUpTo(SortPool, MaxHits)

\* The arguments of the final sort and truncation.
SortInputs == {[fn |-> "none", op |-> "sort", hits |-> h, limit |-> l] :
                  h \in HitLists, l \in Limits}

\* sort.Slice(hits, ...) followed by the truncation to limit, on the merged
\* hits.
SortHits ==
    /\ fcall.fn = "none" /\ fcall.op = "sort"
    /\ \E s \in SortedOrders(fcall.hits) :
         fcall' = [fn |-> "sort", hits |-> fcall.hits, limit |-> fcall.limit,
                   val |-> Truncate(s, fcall.limit)]
    /\ UNCHANGED <<storeVars, searchVars, scan, configVars>>

\* Query strings: "a", "A", "ab", " a", "a b" and the empty string; search
\* blobs (lower case, as parseMessage builds them): "", "a", "b", "ab", "ba",
\* "b a", "a b".
MatchQueries == {<<97>>, <<65>>, <<97, 98>>, <<32, 97>>, <<97, 32, 98>>, <<>>}

Blobs == {<<>>, <<97>>, <<98>>, <<97, 98>>, <<98, 97>>, <<98, 32, 97>>, <<97, 32, 98>>}

MatchInputs == {[fn |-> "none", op |-> "match", q |-> q, blob |-> b] :
                   q \in MatchQueries, b \in Blobs}

\* makeMatcher(q, false) and makeMatcher(q, true) applied to one blob.
MatchBlob ==
    /\ fcall.fn = "none" /\ fcall.op = "match"
    /\ fcall' = [fn |-> "match", q |-> fcall.q, blob |-> fcall.blob,
                 plain |-> makeMatcher(fcall.q, FALSE, fcall.blob),
                 fuzzy |-> makeMatcher(fcall.q, TRUE, fcall.blob)]
    /\ UNCHANGED <<storeVars, searchVars, scan, configVars>>

DayTicks == 2

\* time.Parse("2006-01-02", s): the modelled flag values are one digit d (the
\* day number), parsed to midnight UTC at the start of day d.
ParseDay(s) == (s[1] - 48) * DayTicks

\* mailMain: sinceTime from --since, the zero time when the flag is absent.
sinceTimeOf(flag) == IF flag = <<>> THEN 0 ELSE ParseDay(flag)

\* mailMain: tillTime from --till, t.Add(24 * time.Hour).
tillTimeOf(flag) == IF flag = <<>> THEN 0 ELSE ParseDay(flag) + DayTicks

Percent == 37
Underscore == 95
Backslash == 92

RECURSIVE LikeMatch(_, _)
\* The LIKE operator of PostgreSQL: s matches pattern p as a whole, "%"
\* standing for any sequence of characters, "_" for any one character, and a
\* backslash taking the next character of the pattern literally.
LikeMatch(s, p) ==
    IF p = <<>> THEN s = <<>>
    ELSE IF p[1] = Percent
    THEN \E k \in 0..Len(s) : LikeMatch(SubSeq(s, k + 1, Len(s)), Tail(p))
    ELSE IF p[1] = Underscore
    THEN s # <<>> /\ LikeMatch(Tail(s), Tail(p))
    ELSE IF p[1] = Backslash /\ Len(p) >= 2
    THEN s # <<>> /\ s[1] = p[2] /\ LikeMatch(Tail(s), SubSeq(p, 3, Len(p)))
    ELSE s # <<>> /\ s[1] = p[1] /\ LikeMatch(Tail(s), Tail(p))

\* text ILIKE '%' || t || '%': LIKE without regard to case.
ILikeAround(text, t) == LikeMatch(ToLower(text), <<Percent>> \o ToLower(t) \o <<Percent>>)

\* The WHERE clause pgStore.Search builds from q, applied to one row.
StoreWhere(r, q) ==
    /\ q.profile # "" => r.profile = q.profile
    /\ q.query # <<>> =>
         LET tokens == Fields(ToLower(q.query))
         IN  \A t \in 1..Len(tokens) : ILikeAround(r.search_text, tokens[t])
    /\ q.account # <<>> => r.account = ToLower(q.account)
    /\ q.folderLike # <<>> => ILikeAround(r.folder, q.folderLike)
    /\ q.since # 0 => r.when_ts >= q.since
    /\ q.till # 0 => r.when_ts < q.till

\* --since absent or day 1; --till absent, day 1 or day 2; one message whose
\* Date parses to one of the instants 1..6, or does not parse.
SinceFlags == {<<>>, <<49>>}

TillFlags == {<<>>, <<49>>, <<50>>}

RangeDates == {<<49>>, <<50>>, <<51>>, <<52>>, <<53>>, <<54>>, <<63>>}

RangeInputs == {[fn |-> "none", op |-> "range", sinceFlag |-> sf, tillFlag |-> tf,
                 raw |-> Raw(<<97>>, d, <<120>>)] :
                   sf \in SinceFlags, tf \in TillFlags, d \in RangeDates}

\* One message put through the date range of the three readers: the live
\* scan of a mailbox that holds it, the cache filter of App.search on its
\* cached summary, and the store's Search on its row.
DateRange ==
    /\ fcall.fn = "none" /\ fcall.op = "range"
    /\ LET sinceTime == sinceTimeOf(fcall.sinceFlag)
           tillTime == tillTimeOf(fcall.tillFlag)
           name == Boxes[1].Name
           cached == searchMailbox(<<fcall.raw>>, name, MatchAll, 0, 0, 0, 0, <<>>, 0)
           row == RowOf([Profile |-> "p1"] @@ cached[1])
           q == [profile |-> "p1", query |-> <<>>, account |-> <<>>, folderLike |-> <<>>,
                 since |-> sinceTime, till |-> tillTime, limit |-> 0]
       IN  fcall' = [fn |-> "range", since |-> sinceTime, till |-> tillTime,
                     when |-> cached[1].When,
                     live |-> searchMailbox(<<fcall.raw>>, name, MatchAll, 0, sinceTime,
                                            tillTime, 0, <<>>, 0) # <<>>,
                     cache |-> filterMsgs(cached, <<>>, <<>>, <<>>, sinceTime, tillTime,
                                          MatchAll) # <<>>,
                     store |-> StoreWhere(row, q)]
    /\ UNCHANGED <<storeVars, searchVars, scan, configVars>>

\* Queries for the store: those of MatchQueries and "_", "%", "a_".
StoreQueries == MatchQueries \cup {<<Underscore>>, <<Percent>>, <<97, Underscore>>}

StoreMatchInputs == {[fn |-> "none", op |-> "storematch", q |-> q, blob |-> b] :
                        q \in StoreQueries, b \in Blobs}

\* The text filter of pgStore.Search on a row with the given search blob, and
\* makeMatcher(q, true) on the same blob.
StoreMatch ==
    /\ fcall.fn = "none" /\ fcall.op = "storematch"
    /\ LET row == RowOf([Msg("p1", <<120>>, <<97>>, 1, <<49>>) EXCEPT !.Search = fcall.blob])
           q == [profile |-> "p1", query |-> fcall.q, account |-> <<>>,
                 folderLike |-> <<>>, since |-> 0, till |-> 0, limit |-> 0]
       IN  fcall' = [fn |-> "storematch", q |-> fcall.q, blob |-> fcall.blob,
                     store |-> StoreWhere(row, q),
                     fuzzy |-> makeMatcher(fcall.q, TRUE, fcall.blob)]
    /\ UNCHANGED <<storeVars, searchVars, scan, configVars>>

\* Hits for the de-duplication: identifier "a|" with an empty subject,
\* identifier "a" with the subject "|", the same message in two folders, and
\* two summaries without identifier, subject, date and folder whose snippets
\* differ.
DedupPool ==
    { parseMessage(Raw(<<>>, <<49>>, <<97, Bar>>), Boxes[1].Name),
      parseMessage(Raw(<<Bar>>, <<49>>, <<97>>), Boxes[1].Name),
      parseMessage(RawA, Boxes[1].Name),
      parseMessage(RawA, Boxes[2].Name),
      parseMessage([Raw(<<>>, <<>>, <<>>) EXCEPT !.body = <<120>>], <<>>),
      parseMessage([Raw(<<>>, <<>>, <<>>) EXCEPT !.body = <<121>>], <<>>) }

DedupInputs == {[fn |-> "none", op |-> "dedup", a |-> a, b |-> b] :
                   a \in DedupPool, b \in DedupPool}

\* The de-duplication loop of App.search on two matches, the first arriving
\* before the second.
DedupPair ==
    /\ fcall.fn = "none" /\ fcall.op = "dedup"
    /\ fcall' = [fn |-> "dedup", a |-> fcall.a, b |-> fcall.b,
                 val |-> Dedup([hits |-> <<>>, seen |-> {}, dropped |-> 0],
                               <<fcall.a, fcall.b>>).hits]
    /\ UNCHANGED <<storeVars, searchVars, scan, configVars>>

MaxRecentLen == 3

RECURSIVE RecentLoop(_, _, _, _, _)
\* The loop of readMailboxRecent over the messages the reader still has to
\* return, query being lower-cased already and buf the summaries kept so far.
RecentLoop(entries, name, limit, query, buf) ==
    IF entries = <<>> THEN buf
    ELSE
      LET raw == Head(entries)
          rest == Tail(entries)
      IN  IF raw.kind = "bad" THEN RecentLoop(rest, name, limit, query, buf)
          ELSE IF query # <<>> /\ ~Contains(searchTextOf(raw), query)
          THEN RecentLoop(rest, name, limit, query, buf)
          ELSE
            LET added == Append(buf, parseMessage(raw, name))
                kept == IF query = <<>> /\ limit > 0 /\ Len(added) > limit
                        THEN Tail(added) ELSE added
            IN  IF query # <<>> /\ limit > 0 /\ Len(kept) >= limit THEN kept
                ELSE RecentLoop(rest, name, limit, query, kept)

\* readMailboxRecent on a mailbox that opened.
readMailboxRecent(entries, name, limit, query) ==
    RecentLoop(entries, name, limit, ToLower(query), <<>>)

\* Mailboxes of up to MaxRecentLen messages, --limit 0, 1 or 2, --query
\* absent, "a" or "A".
RecentInputs == {[fn |-> "none", op |-> "recent", entries |-> e, limit |-> l, query |-> q] :
                    e \in SeqsUpTo({RawA, RawB, RawLate, BadRaw}, MaxRecentLen),
                    l \in Limits, q \in {<<>>, <<97>>, <<65>>}}

\* App.recent on the first mailbox: readMailboxRecent.
RecentRead ==
    /\ fcall.fn = "none" /\ fcall.op = "recent"
    /\ fcall' = [fn |-> "recent", entries |-> fcall.entries, limit |-> fcall.limit,
                 query |-> fcall.query,
                 val |-> readMailboxRecent(fcall.entries, Boxes[1].Name, fcall.limit,
                                           fcall.query)]
    /\ UNCHANGED <<storeVars, searchVars, scan, configVars>>

FnInputs ==
    SortInputs \cup MatchInputs \cup RangeInputs \cup StoreMatchInputs \cup DedupInputs
    \cup RecentInputs

InitFn == StoreIdle /\ SearchUnused /\ scan = NoScan /\ fcall \in FnInputs

NextFn ==
    \/ SortHits
    \/ MatchBlob
    \/ DateRange
    \/ StoreMatch
    \/ DedupPair
    \/ RecentRead

SpecFn == InitFn /\ [][NextFn]_vars

-----------------------------------------------------------------------------
(* The four commands on one profile, and the files under the root: the      *)
(* mailboxes, profiles.ini, prefs.js and the cache file.                    *)

\* --profile of recent: absent, or a name no profile has.
ProfileNames == {<<>>, <<113>>}

\* A reply to RawA.
RawReA == Raw(<<82, 101, 58, 97>>, <<50>>, <<119>>)

\* s in reverse order.
Reverse(s) == [i \in 1..Len(s) |-> s[Len(s) + 1 - i]]

\* findMailbox(boxes, name): the first mailbox whose name is the needle, else
\* the first whose name contains it; 0 when there is none.
findMailbox(name) ==
    LET needle == ToLower(name)
        exact == {k \in Folders : ToLower(Boxes[k].Name) = needle}
        partial == {k \in Folders : Contains(ToLower(Boxes[k].Name), needle)}
        first(S) == CHOOSE k \in S : \A j \in S : k <= j
    IN  IF exact # {} THEN first(exact)
        ELSE IF partial # {} THEN first(partial) ELSE 0

\* One iteration of the loop of readMailboxRecent on the message the reader
\* returned, query being lower-cased already: buf and the number of messages
\* read after it, and whether the loop breaks.
RecentStep(raw, name, limit, query, buf, seen) ==
    IF raw.kind = "bad" \/ (query # <<>> /\ ~Contains(searchTextOf(raw), query))
    THEN [found |-> buf, seen |-> seen + 1, stop |-> FALSE]
    ELSE
      LET added == Append(buf, parseMessage(raw, name))
          kept == IF query = <<>> /\ limit > 0 /\ Len(added) > limit
                  THEN Tail(added) ELSE added
      IN  [found |-> kept, seen |-> seen + 1,
           stop |-> query # <<>> /\ limit > 0 /\ Len(kept) >= limit]

RecentFolders == {<<105>>, <<122>>}
RecentLimits == {0, 1}
RecentQueries == {<<>>, <<65>>}

\* The arguments of recent.
RecentRuns ==
    [cmd : {"recent"}, folder : RecentFolders, profileName : ProfileNames,
     limit : RecentLimits, query : RecentQueries]

\* App.recent up to the loop of readMailboxRecent: the profile is resolved,
\* the folder found and its file opened.
RecentOpen ==
    \E r \in RecentRuns :
        LET k == findMailbox(r.folder)
        IN  /\ Begin(r)
            /\ profilesIni' = osOpen(profilesIni)
            /\ cache' = NoFile
            /\ IF resolveProfile(profilesIni, r.profileName) = 0
               THEN /\ out' = [err |-> "profile", hits |-> <<>>, save |-> "none"]
                    /\ spc' = "idle"
                    /\ files' = files
               ELSE IF k = 0
               THEN /\ out' = [err |-> "folder not found", hits |-> <<>>, save |-> "none"]
                    /\ spc' = "idle"
                    /\ files' = files
               ELSE /\ files' = [files EXCEPT ![k] = osOpen(@)]
                    /\ IF files[k].readable
                       THEN /\ out' = NoOut
                            /\ spc' = "read"
                       ELSE /\ out' = [err |-> "open", hits |-> <<>>, save |-> "none"]
                            /\ spc' = "idle"
            /\ UNCHANGED <<now, cacheFile, prefsJs>>
            /\ UNCHANGED <<storeVars, unitVars>>

\* One call of reader.NextMessage in readMailboxRecent and what follows it;
\* after the loop the messages are printed, the last kept first.
RecentNext ==
    /\ run.cmd = "recent"
    /\ spc = "read"
    /\ LET k == findMailbox(run.folder)
           f == files[k]
           eof == full.seen >= Len(f.entries)
           step == RecentStep(f.entries[full.seen + 1], Boxes[k].Name, run.limit,
                              ToLower(run.query), full.found, full.seen)
       IN  IF eof \/ step.stop
           THEN LET buf == IF eof THEN full.found ELSE step.found
                IN  /\ full' = Returned(buf)
                    /\ out' = [err |-> "", hits |-> Reverse(buf), save |-> "none"]
                    /\ spc' = "idle"
           ELSE /\ full' = step
                /\ UNCHANGED <<spc, out>>
    /\ UNCHANGED <<files, now, cacheFile, run, fidx, cache, changed, hits, seenKeys, more,
                   scans, dec, dropped, saves, nops>>
    /\ UNCHANGED <<storeVars, unitVars, configVars>>

RECURSIVE StripReplyPrefixes(_)
\* The loop of normalizeSubject: "re:", "fwd:" and "fw:" are cut off the
\* front, and the rest trimmed, until none is left.
StripReplyPrefixes(s) ==
    IF HasPrefix(s, <<114, 101, 58>>)
    THEN StripReplyPrefixes(TrimSpace(SubSeq(s, 4, Len(s))))
    ELSE IF HasPrefix(s, <<102, 119, 100, 58>>)
    THEN StripReplyPrefixes(TrimSpace(SubSeq(s, 5, Len(s))))
    ELSE IF HasPrefix(s, <<102, 119, 58>>)
    THEN StripReplyPrefixes(TrimSpace(SubSeq(s, 4, Len(s))))
    ELSE s

\* normalizeSubject(sub).
normalizeSubject(sub) == StripReplyPrefixes(ToLower(TrimSpace(sub)))

\* parseMessageFull on a well-formed message: the summary, and the body text.
parseMessageFull(raw, folderName) ==
    [summary |-> parseMessage(raw, folderName), bodyText |-> raw.body]

\* threadSubject of the loop of showMail: empty until the loop sets it.
ThreadSubject(st) == IF "threadSubject" \in DOMAIN st THEN st.threadSubject ELSE <<>>

\* One iteration of the loop of showMail on the message the reader returned,
\* query being lower-cased already.  found holds the messages printed so far
\* or, with thread set, threadMsgs.
ShowStep(raw, name, accountEmail, query, thread, st) ==
    LET read == [found |-> st.found, seen |-> st.seen + 1, stop |-> FALSE,
                 threadSubject |-> ThreadSubject(st)]
    IN  IF raw.kind = "bad" THEN read
        ELSE
          LET full1 == parseMessageFull(raw, name)
              msg == [full1 EXCEPT !.summary.Account =
                                      IF accountEmail # <<>> THEN accountEmail ELSE @]
              blob == ToLower(Join(<<msg.summary.Subject, msg.summary.From,
                                     msg.bodyText>>, <<SP>>))
              normSub == normalizeSubject(msg.summary.Subject)
          IN  IF thread /\ read.threadSubject # <<>>
              THEN IF normSub = read.threadSubject
                   THEN [read EXCEPT !.found = Append(@, msg)]
                   ELSE read
              ELSE IF ~Contains(blob, query) THEN read
              ELSE IF thread
              THEN [read EXCEPT !.threadSubject = normSub, !.found = Append(@, msg)]
              ELSE [read EXCEPT !.found = Append(@, msg)]

\* The comparison function of the sort of threadMsgs.
ThreadLess(a, b) ==
    IF a.summary.When = 0 \/ b.summary.When = 0
    THEN StrLess(b.summary.Date, a.summary.Date)
    ELSE a.summary.When < b.summary.When

RECURSIVE InsertLeft(_, _)
\* The inner loop of the insertion sort: the element at j moves left past
\* every neighbour it is less than.
InsertLeft(s, j) ==
    IF j > 1 /\ ThreadLess(s[j], s[j - 1])
    THEN InsertLeft([s EXCEPT ![j] = s[j - 1], ![j - 1] = s[j]], j - 1)
    ELSE s

RECURSIVE InsertFrom(_, _)
\* The outer loop of the insertion sort, from position i on.
InsertFrom(s, i) == IF i > Len(s) THEN s ELSE InsertFrom(InsertLeft(s, i), i + 1)

\* sort.Slice on threadMsgs: a slice of fewer than seven elements is sorted
\* by insertion, whether or not the comparison function is an ordering.
SortThread(h) == InsertFrom(h, 2)

\* The folder showMail takes: the first whose name contains folderLike; 0
\* when there is none.
ShowTarget(folderLike) ==
    LET some == {k \in Folders : Contains(ToLower(Boxes[k].Name), ToLower(folderLike))}
    IN  IF some = {} THEN 0 ELSE CHOOSE k \in some : \A j \in some : k <= j

ShowFolders == {<<73>>, <<74>>, <<122>>}
\* --account: absent, the address of the account's identity, or an address
\* prefs.js does not have.
AccountChoices == {<<>>, <<85>>, <<118>>}
ShowLimits == {0, 1}

\* The arguments of show.
ShowRuns ==
    [cmd : {"show"}, profileName : ProfileInputs, folderLike : ShowFolders,
     query : {<<65>>}, accountEmail : AccountChoices, limit : ShowLimits,
     thread : BOOLEAN]

\* showMail up to its loop: the profile is resolved, the folder taken, the
\* account checked against prefs.js and the folder's file opened.
ShowOpen ==
    \E r \in ShowRuns :
        LET n == Normalized(r)
            k == ShowTarget(n.folderLike)
            resolved == resolveProfile(profilesIni, n.profileName) # 0
            scoped == resolved /\ k # 0 /\ n.accountEmail # <<>>
            inAccount == /\ prefsJs.readable
                         /\ \E d \in AccountDirs(n.accountEmail) : HasPrefix(Boxes[k].Path, d)
            opens == resolved /\ k # 0 /\ (scoped => inAccount)
        IN  /\ Begin(n)
            /\ profilesIni' = osOpen(profilesIni)
            /\ prefsJs' = IF scoped THEN osReadFile(prefsJs) ELSE prefsJs
            /\ files' = IF opens THEN [files EXCEPT ![k] = osOpen(@)] ELSE files
            /\ cache' = NoFile
            /\ IF ~resolved
               THEN /\ out' = [err |-> "profile", hits |-> <<>>, save |-> "none"]
                    /\ spc' = "idle"
               ELSE IF k = 0
               THEN /\ out' = [err |-> "no folders", hits |-> <<>>, save |-> "none"]
                    /\ spc' = "idle"
               ELSE IF scoped /\ ~inAccount
               THEN /\ out' = [err |-> "not in account", hits |-> <<>>, save |-> "none"]
                    /\ spc' = "idle"
               ELSE IF ~files[k].readable
               THEN /\ out' = [err |-> "open", hits |-> <<>>, save |-> "none"]
                    /\ spc' = "idle"
               ELSE /\ out' = NoOut
                    /\ spc' = "read"
            /\ UNCHANGED <<now, cacheFile>>
            /\ UNCHANGED <<storeVars, unitVars>>

\* One iteration of the loop of showMail: the test of the limit, then
\* reader.NextMessage and what follows it; after the loop a thread is
\* sorted, truncated and printed.
ShowNext ==
    /\ run.cmd = "show"
    /\ spc = "read"
    /\ LET k == ShowTarget(run.folderLike)
           f == files[k]
           count == IF run.thread THEN 0 ELSE Len(full.found)
           eof == full.seen >= Len(f.entries)
       IN  IF (run.limit > 0 /\ count >= run.limit) \/ eof
           THEN /\ spc' = "idle"
                /\ full' = Returned(full.found)
                /\ IF run.thread
                   THEN out' = [err |-> "", hits |-> Truncate(SortThread(full.found), run.limit),
                                save |-> "none"]
                   ELSE out' = [err |-> "", hits |-> full.found, save |-> "none"]
           ELSE /\ full' = ShowStep(f.entries[full.seen + 1], Boxes[k].Name,
                                    run.accountEmail, ToLower(run.query), run.thread, full)
                /\ UNCHANGED <<spc, out>>
    /\ UNCHANGED <<files, now, cacheFile, run, fidx, cache, changed, hits, seenKeys, more,
                   scans, dec, dropped, saves, nops>>
    /\ UNCHANGED <<storeVars, unitVars, configVars>>

\* The arguments of a search with --account absent, known or unknown.
ScopedSearchRuns ==
    {[cmd |-> "search", query |-> <<97>>, fuzzy |-> FALSE, limit |-> 0, since |-> 0,
      till |-> 0, maxMessages |-> 0, noIndex |-> n, tailCount |-> 0,
      accountEmail |-> a, folderLike |-> <<>>, profileName |-> p] :
        n \in BOOLEAN, a \in AccountChoices, p \in ProfileInputs}

\* App.search up to the folder loop, with --account absent, known or unknown.
SearchStartScoped ==
    \E r \in ScopedSearchRuns :
        LET n == Normalized(r)
        IN  /\ Begin(n)
            /\ ReadConfig(n)
            /\ IF resolveProfile(profilesIni, n.profileName) = 0
               THEN /\ out' = [err |-> "profile", hits |-> <<>>, save |-> "none"]
                    /\ spc' = "idle"
                    /\ cache' = NoFile
               ELSE IF (n.accountEmail # <<>>
                          /\ (~prefsJs.readable \/ AccountDirs(n.accountEmail) = {}))
                       \/ Filtered(n.accountEmail, n.folderLike) = <<>>
               THEN /\ out' = [err |-> "no folders", hits |-> <<>>, save |-> "none"]
                    /\ spc' = "idle"
                    /\ cache' = NoFile
               ELSE /\ out' = NoOut
                    /\ spc' = "folder"
                    /\ cache' = loadCache(n.noIndex, cacheFile)
            /\ UNCHANGED <<files, now, cacheFile>>
            /\ UNCHANGED <<storeVars, unitVars>>

InitProfile ==
    /\ StoreIdle
    /\ UnitUnused
    /\ InitSearchIdle
    /\ now = 0
    /\ files \in {[k \in Folders |-> [mtime |-> 0, late |-> FALSE,
                                      readable |-> k = 1 \/ r,
                                      entries |-> IF k = 1 THEN e ELSE <<RawB>>]] :
                     e \in {<<RawA, RawReA>>, <<RawA>>}, r \in BOOLEAN}
    /\ cacheFile = NoFile
    /\ profilesIni = ProfilesIni
    /\ prefsJs = PrefsJs

NextProfile ==
    \/ SearchStartScoped
    \/ SearchFolder
    \/ SearchScan
    \/ SearchRead
    \/ SearchStat
    \/ SearchFinish
    \/ IndexStart
    \/ IndexScan
    \/ IndexRead
    \/ IndexStat
    \/ IndexFinish
    \/ RecentOpen
    \/ RecentNext
    \/ ShowOpen
    \/ ShowNext
    \/ WriterAppend

SpecProfile == InitProfile /\ [][NextProfile]_vars

-----------------------------------------------------------------------------
(* searchMailbox one reader call at a time.  The mailbox file is what       *)
(* os.Open returned: a regular file holding lines that precede the first    *)
(* "From " separator (junk) followed by messages, or a directory reached    *)
(* through a symbolic link, on which os.Open succeeds and every read fails  *)
(* with EISDIR.                                                             *)

MaxScanLen == 3
WarnWrap == 4

\* The mailbox contents.
ScanPool == {RawA, RawB, BadRaw, RawLate}

ScanEntries == SeqsUpTo(ScanPool, MaxScanLen)

\* <<maxMessages, tailCount>>.
ScanCaps == {<<0, 0>>, <<1, 0>>, <<2, 0>>, <<0, 1>>, <<1, 1>>, <<0, 2>>, <<1, 2>>}

ScanMatchers == {MatchAll, [q |-> <<97>>, fuzzy |-> FALSE, all |-> FALSE]}

ScanTills == {0, 5}

ScanCalls ==
    {[pos |-> "call", isDir |-> FALSE, junk |-> j, entries |-> e, match |-> m,
      limit |-> l, since |-> 0, till |-> t, maxMessages |-> c[1], tailCount |-> c[2]] :
        j \in {0, 1}, e \in ScanEntries, m \in ScanMatchers, l \in {0, 1},
        t \in ScanTills, c \in ScanCaps}
    \cup
    {[pos |-> "call", isDir |-> TRUE, junk |-> 0, entries |-> <<>>, match |-> MatchAll,
      limit |-> 0, since |-> 0, till |-> 0, maxMessages |-> c[1], tailCount |-> c[2]] :
        c \in ScanCaps}

\* os.Open, mbox.NewReader and the declarations before the loop.  left is
\* what the reader has not consumed yet; examined and origin record the
\* positions of the messages handed to parseMessage and of the hits kept.
ScanOpen ==
    /\ scan.pos = "call"
    /\ scan' = [pos |-> "loop", arg |-> scan, junkLeft |-> scan.junk, left |-> scan.entries,
                found |-> <<>>, seen |-> 0, warnCount |-> 0, examined |-> <<>>,
                origin |-> <<>>]
    /\ UNCHANGED <<storeVars, searchVars, fcall, configVars>>

\* One iteration of the loop: reader.NextMessage() and what follows it.
ScanNext ==
    /\ scan.pos = "loop"
    /\ LET a == scan.arg
           warned == [scan EXCEPT !.warnCount = (@ + 1) % WarnWrap]
       IN
         IF a.isDir
         THEN \* the read fails: err is not io.EOF, warnCount++, continue
              scan' = warned
         ELSE IF scan.junkLeft > 0
         THEN \* mbox.ErrInvalidFormat, the line is consumed
              scan' = [warned EXCEPT !.junkLeft = @ - 1]
         ELSE IF scan.left = <<>>
         THEN \* io.EOF
              scan' = [scan EXCEPT !.pos = "done"]
         ELSE
           LET raw == Head(scan.left)
               at == Len(a.entries) - Len(scan.left) + 1
               seen1 == scan.seen + 1
               read == [scan EXCEPT !.left = Tail(@), !.seen = seen1]
           IN  IF ScanStops(seen1, Len(scan.found), a.maxMessages, a.tailCount)
               THEN scan' = [read EXCEPT !.pos = "done"]
               ELSE IF raw.kind = "bad"
               THEN scan' = [read EXCEPT !.examined = Append(@, at)]
               ELSE
                 LET parsed == parseMessage(raw, Boxes[1].Name)
                     text == searchTextOf(raw)
                     summary == [parsed EXCEPT !.Search = text]
                     skip == OutOfRange(parsed.When, a.since, a.till)
                 IN  IF skip \/ ~Matches(a.match, text)
                     THEN scan' = [read EXCEPT !.examined = Append(@, at)]
                     ELSE scan' = [read EXCEPT
                                     !.examined = Append(@, at),
                                     !.found = TrimHits(Append(@, summary), a.limit,
                                                        a.tailCount),
                                     !.origin = TrimHits(Append(@, at), a.limit,
                                                         a.tailCount)]
    /\ UNCHANGED <<storeVars, searchVars, fcall, configVars>>

InitScan == StoreIdle /\ SearchUnused /\ fcall = NoFcall /\ scan \in ScanCalls

NextScan ==
    \/ ScanOpen
    \/ ScanNext

\* The loop is the body of one goroutine that nothing suspends: an enabled
\* step is eventually taken.
SpecScan == InitScan /\ [][NextScan]_vars /\ WF_vars(NextScan)

-----------------------------------------------------------------------------
(* Properties of the store.                                                 *)

\* The message identifiers stored under a profile.
IdsOf(t, profile) == {x.message_id : x \in {y \in BagToSet(t) : y.profile = profile}}

\* The part of a table that belongs to other profiles.
OtherProfiles(t, profile) ==
    LET keep == {x \in BagToSet(t) : x.profile # profile}
    IN  [x \in keep |-> t[x]]

PruneReturned == last.op = "PruneMissing" /\ ~last.err

\* C4 as stated: after PruneMissing(P, K), for every K including the empty
\* list, the identifiers stored for P are exactly the previously stored
\* identifiers of P that are in K.
C4_PruneExactAnyKeepList ==
    PruneReturned =>
        IdsOf(last.post, last.profile) = IdsOf(last.pre, last.profile) \cap last.keepIDs

\* C4 amended: for every non-empty K the identifiers stored for P after
\* PruneMissing(P, K) are exactly the previously stored identifiers of P that
\* are in K; with the empty list PruneMissing deletes nothing.
C4_PruneExactNonEmpty ==
    PruneReturned =>
        IF last.keepIDs = {}
        THEN last.post = last.pre
        ELSE IdsOf(last.post, last.profile)
                 = IdsOf(last.pre, last.profile) \cap last.keepIDs

\* A prune with a non-empty keep-list that deleted one identifier of the
\* profile and kept another.
C4_Witness ==
    /\ PruneReturned
    /\ last.keepIDs # {}
    /\ IdsOf(last.pre, last.profile) \ last.keepIDs # {}
    /\ IdsOf(last.pre, last.profile) \cap last.keepIDs # {}
    /\ db = last.post

\* C5: PruneMissing(P, K) leaves every row of another profile as it was (same
\* rows, same contents) and leaves the metadata table unchanged.
C5_PruneFrame ==
    last.op = "PruneMissing" =>
        /\ OtherProfiles(last.post, last.profile) = OtherProfiles(last.pre, last.profile)
        /\ meta = last.premeta

\* A prune that deleted a row of its profile while another profile held a row
\* whose identifier is not in the keep-list, and the metadata table is not
\* empty.
C5_Witness ==
    /\ PruneReturned
    /\ last.post # last.pre
    /\ \E x \in BagToSet(last.pre) :
          x.profile # last.profile /\ x.message_id \notin last.keepIDs
    /\ DOMAIN meta # {}

\* C6: an Upsert that repeats the batch of the committed Upsert right before
\* it leaves the table exactly as that Upsert left it: the same rows, each
\* once, with the same column values.
C6_UpsertIdempotent ==
    (last.op = "Upsert" /\ repeat) => last.post = last.pre

\* A committed repeat of a two-message batch.
C6_Witness ==
    /\ last.op = "Upsert" /\ repeat /\ ~last.err
    /\ Len(last.batch) = 2
    /\ last.post # EmptyBag

\* The index of the last message of batch b that has the key of b[i].
LastWithKey(b, i) ==
    CHOOSE j \in i..Len(b) :
        /\ KeyOf(RowOf(b[j])) = KeyOf(RowOf(b[i]))
        /\ \A k \in (j + 1)..Len(b) : KeyOf(RowOf(b[k])) # KeyOf(RowOf(b[i]))

\* C7: the table holds at most one row per (profile, message identifier);
\* an Upsert leaves the rows of every key outside its batch as they were, so a
\* row with the same identifier under another profile is not overwritten; and
\* after an Upsert the row of each key of the batch carries the fields of the
\* last message of the batch with that key.
C7_RowKey ==
    /\ \A x \in BagToSet(db) :
          /\ db[x] = 1
          /\ \A y \in BagToSet(db) : KeyOf(x) = KeyOf(y) => x = y
    /\ (last.op = "Upsert" /\ ~last.err) =>
          /\ \A x \in BagToSet(last.pre) :
                KeyOf(x) \notin KeysOf(last.batch) =>
                    x \in BagToSet(last.post) /\ last.post[x] = last.pre[x]
          /\ \A i \in 1..Len(last.batch) :
                LET r == RowOf(last.batch[LastWithKey(last.batch, i)])
                IN  {x \in BagToSet(last.post) : KeyOf(x) = KeyOf(r)} = {r}

\* A committed Upsert of two messages with one key and different contents,
\* while the other profile holds a row with the same identifier.
C7_Witness ==
    /\ last.op = "Upsert" /\ ~last.err
    /\ Len(last.batch) = 2
    /\ KeyOf(RowOf(last.batch[1])) = KeyOf(RowOf(last.batch[2]))
    /\ RowOf(last.batch[1]) # RowOf(last.batch[2])
    /\ \E x \in BagToSet(db) :
          /\ x.message_id = RowOf(last.batch[1]).message_id
          /\ x.profile # last.batch[1].Profile

\* C8: an Upsert that returns an error leaves the table exactly as it was
\* before the call.
C8_UpsertAtomic ==
    (last.op = "Upsert" /\ last.err) => (last.post = last.pre /\ db = last.pre)

\* An Upsert that failed after a statement that would have changed the table.
C8_Witness ==
    /\ last.op = "Upsert" /\ last.err
    /\ last.done >= 1
    /\ ApplyAll(last.pre, RowsOf(SubSeq(last.batch, 1, last.done))) # last.pre

BothReturned == \A p \in Procs : pc[p] = "idle" /\ res[p] # "none"

\* Running batch b alone in one committed transaction on table t.
RunAlone(t, b) == ApplyAll(t, RowsOf(b))

\* C9: two Upsert batches with disjoint key sets, run concurrently as separate
\* transactions: when both have committed, the table equals the result of
\* running the two batches one after the other, in either order, whatever the
\* interleaving; a batch whose transaction failed contributes nothing.
C9_DisjointBatchesCommute ==
    BothReturned =>
        /\ (res[1] = "ok" /\ res[2] = "ok") =>
              /\ db = RunAlone(RunAlone(base, plan[1]), plan[2])
              /\ db = RunAlone(RunAlone(base, plan[2]), plan[1])
        /\ (res[1] = "ok" /\ res[2] = "err") => db = RunAlone(base, plan[1])
        /\ (res[1] = "err" /\ res[2] = "ok") => db = RunAlone(base, plan[2])
        /\ (res[1] = "err" /\ res[2] = "err") => db = base

\* Both batches committed, the second to begin committing first, and each
\* changed the table.
C9_Witness ==
    /\ BothReturned
    /\ res[1] = "ok" /\ res[2] = "ok"
    /\ Len(plan[1]) = 2 /\ Len(plan[2]) = 2
    /\ RunAlone(base, plan[1]) # base
    /\ RunAlone(base, plan[2]) # base
    /\ db # RunAlone(base, plan[1])
    /\ db # RunAlone(base, plan[2])

-----------------------------------------------------------------------------
(* Properties of the search pipeline.                                       *)

\* The folders the search in progress, or the last one, has finished, the
\* cache being enabled and holding an entry for the folder.
CachedFolders ==
    {k \in Folders : run.cmd = "search" /\ ~run.noIndex /\ dec[k].done /\ dec[k].present}

\* The cached matches are enough for the limit: at least one, and at least
\* limit of them when a limit is set.
Enough(k) == dec[k].nmore >= 1 /\ (run.limit <= 0 \/ dec[k].nmore >= run.limit)

\* C1 as stated: in a search with the cache enabled, a folder whose file
\* fingerprint equals the one stored by the last full scan is not re-read,
\* whatever the query and limit, and a folder whose mtime or size differs is
\* re-scanned.
C1_NeverRereadWhenFingerprintEqual ==
    \A k \in CachedFolders :
        /\ (dec[k].fpEqual /\ dec[k].complete /\ dec[k].fullScan) => scans[k] = 0
        /\ ~dec[k].fpEqual => scans[k] = 1

\* C1, amended: in a search with the cache enabled, a folder with a cache
\* entry is not re-read exactly when the stored fingerprint equals the file's,
\* the entry is Complete, no cached message has an unset timestamp, and the
\* entry yields enough matches for the query and limit; otherwise, and so
\* whenever mtime or size differs, it is re-scanned once.
C1_CacheCoherence ==
    \A k \in CachedFolders :
        /\ scans[k] = 0 <=> /\ dec[k].fpEqual
                            /\ dec[k].complete
                            /\ dec[k].noMissing
                            /\ Enough(k)
        /\ scans[k] # 0 => scans[k] = 1
        /\ ~dec[k].fpEqual => scans[k] = 1

\* One search served folder 2 from its entry without reading the mailbox and
\* re-scanned folder 1, whose size had changed; both had entries.
C1_Witness ==
    /\ CachedFolders = Folders
    /\ dec[2].fpEqual /\ scans[2] = 0
    /\ ~dec[1].fpEqual /\ scans[1] = 1

\* The entries of the cache file and of the IndexFile in memory.
Entries(c) == {c.Folders[k] : k \in DOMAIN c.Folders}

\* C2: in every reachable cache state, an entry has Complete = TRUE only if
\* its Messages came from a match-all scan with no cap (maxMessages) and no
\* tail window (tailCount) in effect, for entries written by search and by
\* the index command.
C2_CompleteOnlyIfFullScan ==
    \A e \in Entries(cacheFile) \cup Entries(cache) :
        e.Complete => (e.scanned.maxMessages = 0 /\ e.scanned.tailCount = 0)

\* C3: the hits of a folder are taken from its cache entry only if the stored
\* (ModTime, Size) equals the file's, the entry is Complete and no cached
\* message has an unset timestamp; if one of the three fails the entry is not
\* used and the folder is re-scanned.
C3_StalenessTest ==
    \A k \in CachedFolders :
        /\ dec[k].src = "cache" =>
              (dec[k].fpEqual /\ dec[k].complete /\ dec[k].noMissing)
        /\ ~(dec[k].fpEqual /\ dec[k].complete /\ dec[k].noMissing) =>
              (~dec[k].useCache /\ dec[k].src # "cache" /\ scans[k] = 1)

\* One search took folder 2's hits from its entry and re-scanned folder 1,
\* whose entry had an equal fingerprint and was Complete but held a message
\* with an unset timestamp.
C3_Witness ==
    /\ CachedFolders = Folders
    /\ dec[2].src = "cache" /\ Len(out.hits) >= 1
    /\ dec[1].fpEqual /\ dec[1].complete /\ ~dec[1].noMissing
    /\ dec[1].src = "rescan"

\* The (message identifier, subject, date, folder) tuple of a hit.
Tuple4(m) == <<m.MessageID, m.Subject, m.Date, m.Folder>>

NoRepeat(h) == \A i, j \in 1..Len(h) : Tuple4(h[i]) = Tuple4(h[j]) => i = j

\* C10: in the aggregated output of a search no two hits have the same
\* (message identifier, subject, date, folder) tuple, whichever folders or
\* sources produced them.
C10_NoDuplicateHits ==
    run.cmd = "search" => (NoRepeat(hits) /\ (out.err = "" => NoRepeat(out.hits)))

\* A search returned hits from a cache entry and from a re-scan, and dropped a
\* message whose tuple was already among the hits.
C10_Witness ==
    /\ run.cmd = "search" /\ spc = "idle" /\ out.err = ""
    /\ Len(out.hits) >= 2
    /\ dropped >= 1
    /\ \E k \in Folders : dec[k].src = "cache"
    /\ \E k \in Folders : dec[k].src = "rescan"

-----------------------------------------------------------------------------
(* Properties of the pure functions.                                        *)

\* C11: in the sorted result every hit with a parsed timestamp comes before
\* every hit without one; among hits with a timestamp a later timestamp comes
\* first; among hits without a timestamp the raw date strings are descending.
C11_SortOrder ==
    fcall.fn = "sort" =>
      \A i, j \in 1..Len(fcall.val) :
        i < j =>
          LET a == fcall.val[i]
              b == fcall.val[j]
          IN  /\ a.When = 0 => b.When = 0
              /\ (a.When # 0 /\ b.When # 0) => a.When >= b.When
              /\ (a.When = 0 /\ b.When = 0) => ~StrLess(a.Date, b.Date)

\* A sorted result with two timestamps in descending order followed by two
\* unparsed dates in descending order, from hits that arrived in the opposite
\* order.
C11_Witness ==
    /\ fcall.fn = "sort"
    /\ Len(fcall.val) = 4
    /\ fcall.hits[1].When = 0 /\ fcall.hits[2].When = 0
    /\ StrLess(fcall.hits[1].Date, fcall.hits[2].Date)
    /\ fcall.hits[3].When # 0 /\ fcall.hits[3].When < fcall.hits[4].When
    /\ fcall.val[1].When > fcall.val[2].When /\ fcall.val[2].When # 0
    /\ fcall.val[3].When = 0 /\ fcall.val[4].When = 0
    /\ StrLess(fcall.val[4].Date, fcall.val[3].Date)

\* A query that is one token: splitting it at white space gives the query
\* itself.
SingleToken(q) == Fields(ToLower(q)) = <<ToLower(q)>>

\* C13: for every search blob and every query that is a single token, the
\* fuzzy matcher and the substring matcher return the same boolean.
C13_MatcherEquivalence ==
    (fcall.fn = "match" /\ SingleToken(fcall.q)) => fcall.plain = fcall.fuzzy

\* An upper-case single-token query found by both matchers in a blob of two
\* words.
C13_Witness ==
    /\ fcall.fn = "match"
    /\ SingleToken(fcall.q)
    /\ fcall.q = <<65>>
    /\ fcall.blob = <<98, 32, 97>>
    /\ fcall.plain /\ fcall.fuzzy

\* C20: a message with parsed timestamp T is kept iff S <= T and T lies
\* before the end of day D (T < D + 24h), and the live scan, the cache filter
\* and the store's Search decide alike, also for T exactly at D + 24h.
C20_DateRange ==
    (fcall.fn = "range" /\ fcall.when # 0) =>
      LET inRange == /\ fcall.since # 0 => fcall.since <= fcall.when
                     /\ fcall.till # 0 => fcall.when < fcall.till
      IN  /\ fcall.live = inRange
          /\ fcall.cache = inRange
          /\ fcall.store = inRange

-----------------------------------------------------------------------------
(* Properties of the scan.                                                  *)

\* The positions of the messages of the scanned mailbox that parse, match the
\* predicate and lie in the date range, in file order.
Satisfying ==
    LET a == scan.arg
        ok(k) == /\ a.entries[k].kind = "msg"
                 /\ Matches(a.match, searchTextOf(a.entries[k]))
                 /\ LET w == parseMessage(a.entries[k], Boxes[1].Name).When
                    IN  w = 0 \/ ((a.since = 0 \/ w >= a.since) /\ (a.till = 0 \/ w <= a.till))
    IN  SelectSeq([k \in 1..Len(a.entries) |-> k], ok)

\* The summary searchMailbox returns for the message at position k.
SummaryAt(k) ==
    [parseMessage(scan.arg.entries[k], Boxes[1].Name) EXCEPT
        !.Search = searchTextOf(scan.arg.entries[k])]

Min(x, y) == IF x < y THEN x ELSE y

\* C14: with a tail window N > 0, whatever the cap, the scan returns exactly
\* the last min(N, m) of the m messages that satisfy the predicate and the
\* date range over the whole folder, in file order.
C14_TailWindow ==
    (scan.pos = "done" /\ scan.arg.tailCount > 0) =>
      LET sat == Satisfying
          m == Len(sat)
          n == Min(scan.arg.tailCount, m)
      IN  /\ scan.origin = SubSeq(sat, m - n + 1, m)
          /\ scan.found = [i \in 1..n |-> SummaryAt(sat[m - n + i])]

\* A scan with tail window 1 and cap 1 over three messages of which the
\* first and the last satisfy the predicate returned the last one only.
C14_Witness ==
    /\ scan.pos = "done"
    /\ scan.arg.tailCount = 1 /\ scan.arg.maxMessages = 1
    /\ Len(scan.arg.entries) = 3
    /\ Satisfying = <<1, 3>>
    /\ scan.origin = <<3>>

\* C15: with a cap C > 0 and no tail window the scan examines exactly the
\* first min(C, n) of the folder's n messages, whether they match or not, and
\* no message after position C is in its result.
C15_ScanCap ==
    (scan.pos = "done" /\ scan.arg.maxMessages > 0 /\ scan.arg.tailCount = 0) =>
      LET n == Len(scan.arg.entries)
          c == Min(scan.arg.maxMessages, n)
      IN  /\ scan.examined = [k \in 1..c |-> k]
          /\ \A i \in 1..Len(scan.origin) : scan.origin[i] <= scan.arg.maxMessages
          /\ \A i \in 1..Len(scan.found) : scan.found[i] = SummaryAt(scan.origin[i])

\* A scan with cap 2 over three messages, the first of which does not match
\* and the third of which does: two messages examined, one hit, the third
\* message not in the result.
C15_Witness ==
    /\ scan.pos = "done"
    /\ scan.arg.maxMessages = 2 /\ scan.arg.tailCount = 0
    /\ Len(scan.arg.entries) = 3
    /\ Satisfying = <<2, 3>>
    /\ scan.examined = <<1, 2>>
    /\ scan.origin = <<2>>

\* C16: every call of searchMailbox on a mailbox that can be opened
\* eventually returns, also when the reader reports errors other than io.EOF.
C16_ScanReturns == (scan.pos = "loop") ~> (scan.pos = "done")

-----------------------------------------------------------------------------
(* Properties of a whole search.                                            *)

RECURSIVE MatchesIn(_)
\* The matches of the query in the given folders as they are now, folder by
\* folder in file order, from an uncapped scan.
MatchesIn(ks) ==
    IF ks = <<>> THEN <<>>
    ELSE searchMailbox(files[Head(ks)].entries, Boxes[Head(ks)].Name, Matcher, 0,
                       run.since, run.till, 0, TargetAccount(Head(ks)), 0)
         \o MatchesIn(Tail(ks))

\* The de-duplicated list of all matches from all candidate folders.
AllMatches ==
    Dedup([hits |-> <<>>, seen |-> {}, dropped |-> 0],
          MatchesIn(Filtered(run.accountEmail, run.folderLike))).hits

Tuples(h) == [i \in 1..Len(h) |-> Tuple4(h[i])]

\* A search without cap and tail window has returned, every mailbox is
\* readable and none was written since the first command began.
UncappedQuietSearch ==
    /\ spc = "idle" /\ run.cmd = "search" /\ out.err = ""
    /\ run.maxMessages = 0 /\ run.tailCount = 0
    /\ \A k \in Folders : files[k].readable /\ ~files[k].late

\* C12: with limit L > 0 a search returns at most L hits, the first L of the
\* sorted, de-duplicated list of all matches from all candidate folders; with
\* L = 0 it returns every match.
C12_LimitPrefix ==
    UncappedQuietSearch =>
      /\ run.limit > 0 => Len(out.hits) <= run.limit
      /\ Tuples(out.hits) \in {Tuples(Truncate(s, run.limit)) : s \in SortedOrders(AllMatches)}

\* C17: a search with the cache enabled in which a folder was re-scanned and
\* its entry replaced writes the cache file exactly once, after the last
\* folder, whatever the number of hits; no search writes it more than once or
\* before all folders are processed.
C17_CacheWrittenOnce ==
    run.cmd = "search" =>
      /\ saves <= 1
      /\ spc # "idle" => saves = 0
      /\ (spc = "idle" /\ out.err = "" /\ cache.exists /\ changed) => saves = 1

\* C18: a search that tried to open a candidate folder's mailbox and could
\* not returns an error to its caller.
C18_UnopenableIsFatal ==
    (spc = "idle" /\ run.cmd = "search"
       /\ \E k \in Folders : scans[k] >= 1 /\ ~files[k].readable)
      => out.err \notin {"", "none"}

\* C19: a search or an index build whose write of the cache file failed
\* returns an error to its caller.
C19_SaveFailureReported ==
    (spc = "idle" /\ out.save = "failed") => out.err \notin {"", "none"}

\* The identity emails of the account-to-directory map.
Accounts == {<<117>>}

\* C23: in a search that is not account-scoped, every returned summary whose
\* folder path lies under a storage directory of an account carries that
\* account's label.
C23_AccountAttribution ==
    (spc = "idle" /\ run.cmd = "search" /\ out.err = "" /\ run.accountEmail = <<>>) =>
      \A i \in 1..Len(out.hits) :
        \A k \in Folders, a \in Accounts :
          (Boxes[k].Name = out.hits[i].Folder
             /\ \E d \in AccountDirs(a) : HasPrefix(Boxes[k].Path, d))
            => out.hits[i].Account = a

\* C24: for every stored search blob and every query string, the text filter
\* of pgStore.Search accepts the row iff makeMatcher(query, fuzzy = true)
\* accepts the blob.
C24_StoreMatchIsFuzzy ==
    fcall.fn = "storematch" => fcall.store = fcall.fuzzy

\* The four fields of the de-duplication key are all empty.
KeyFieldsEmpty(m) == Tuple4(m) = <<<<>>, <<>>, <<>>, <<>>>>

\* C29: two matches that differ in message identifier, subject, date or
\* folder are both in the output, whatever characters the fields hold; two
\* matches whose four fields are all empty are merged only if their (date,
\* snippet) pairs are equal.
C29_NoFalseDedup ==
    fcall.fn = "dedup" =>
      /\ Tuple4(fcall.a) # Tuple4(fcall.b) => fcall.val = <<fcall.a, fcall.b>>
      /\ (KeyFieldsEmpty(fcall.a) /\ KeyFieldsEmpty(fcall.b) /\ Len(fcall.val) = 1)
           => <<fcall.a.Date, fcall.a.Snippet>> = <<fcall.b.Date, fcall.b.Snippet>>

\* C30: in searchMailbox and in the aggregator's filter a summary whose
\* timestamp is unset is never removed by the since/till bounds.
C30_UnsetDateKept ==
    (fcall.fn = "range" /\ fcall.when = 0) => (fcall.live /\ fcall.cache)

\* A message whose Date does not parse went through the scan and the cache
\* filter with both bounds set, and both kept it.
C30_Witness ==
    /\ fcall.fn = "range" /\ fcall.when = 0
    /\ fcall.since # 0 /\ fcall.till # 0
    /\ fcall.live /\ fcall.cache

\* The summaries of the messages of the mailbox given to recent that parse
\* and contain the query, in file order.
RecentMatching ==
    LET ok(r) == r.kind = "msg"
                 /\ (fcall.query = <<>> \/ Contains(searchTextOf(r), ToLower(fcall.query)))
        sel == SelectSeq(fcall.entries, ok)
    IN  [i \in 1..Len(sel) |-> parseMessage(sel[i], Boxes[1].Name)]

\* The last n elements of h, all of them when n = 0 or h is shorter.
LastN(h, n) == IF n > 0 /\ Len(h) > n THEN SubSeq(h, Len(h) - n + 1, Len(h)) ELSE h

\* C25: recent with limit L returns the last L matching messages of the
\* folder in file order, with a query as it does without one.
C25_RecentLatest ==
    fcall.fn = "recent" => fcall.val = LastN(RecentMatching, fcall.limit)

\* C21: every step of a search, an index build, recent or show leaves the
\* mailbox files, profiles.ini and prefs.js unchanged: of the files under
\* the root, a command writes the cache file only.  The mailbox files change
\* only by the mail client's writes, which advance the clock.
C21_ReadOnly == [][now' = now => UNCHANGED <<files, profilesIni, prefsJs>>]_vars

\* An account-scoped show, which read profiles.ini, prefs.js and a mailbox,
\* has printed a message after a command that scanned the mailboxes and wrote
\* the cache file; no mailbox and neither configuration file was written.
C21_Witness ==
    /\ spc = "idle" /\ run.cmd = "show" /\ run.accountEmail # <<>>
    /\ out.err = "" /\ out.hits # <<>>
    /\ nops = 2 /\ cacheFile.exists
    /\ now = 0 /\ \A k \in Folders : files[k].mtime = 0
    /\ profilesIni = ProfilesIni /\ prefsJs = PrefsJs

\* C22: a search with noIndex set holds no cache in memory, replaces no
\* entry and never calls saveIndex, and every folder it has finished was
\* opened for one live scan and took nothing from a cache entry.
C22_CacheBypass ==
    (run.cmd = "search" /\ run.noIndex) =>
        /\ cache = NoFile
        /\ ~changed
        /\ saves = 0
        /\ out.save = "none"
        /\ \A k \in Folders : dec[k].done =>
              /\ scans[k] = 1
              /\ ~dec[k].useCache
              /\ dec[k].src = IF files[k].readable THEN "live" ELSE "none"

\* A search with noIndex set has finished the first folder by a live scan
\* while the cache file holds a fresh, complete entry for it.
C22_Witness ==
    /\ run.cmd = "search" /\ run.noIndex
    /\ spc = "idle" /\ out.err = ""
    /\ dec[1].done /\ dec[1].src = "live"
    /\ cacheFile.exists /\ 1 \in DOMAIN cacheFile.Folders
    /\ Fresh(cacheFile.Folders[1], files[1].mtime, FileSize(files[1]))

\* The folders whose entry in the command's cache was built by this command.
BuiltHere ==
    {k \in Folders : /\ cache.exists /\ k \in DOMAIN cache.Folders
                     /\ dec[k].readAt.set
                     /\ \/ run.cmd = "index"
                        \/ run.cmd = "search" /\ dec[k].src = "rescan"}

\* C26: the fingerprint stored in an entry a command has built is the
\* fingerprint the mailbox file had when the entry's messages were read.
C26_FingerprintOfScan ==
    \A k \in BuiltHere :
        /\ cache.Folders[k].ModTime = dec[k].readAt.ModTime
        /\ cache.Folders[k].Size = dec[k].readAt.Size

\* The folders the search in progress answered from their cache entry, the
\* mailbox being readable and not written since the first command began.
ServedFromCache ==
    {k \in Folders : /\ run.cmd = "search" /\ ~run.noIndex
                     /\ dec[k].done /\ dec[k].src = "cache" /\ dec[k].useCache
                     /\ files[k].readable /\ ~files[k].late}

\* What the search in progress would take from folder k with noIndex set.
LiveMatches(k) ==
    searchMailbox(files[k].entries, Boxes[k].Name, Matcher, 0, run.since, run.till,
                  run.maxMessages, TargetAccount(k), run.tailCount)

TupleSet(h) == {Tuple4(h[i]) : i \in 1..Len(h)}

\* C27: for a folder whose file has not changed since its entry was written,
\* the hits a search takes from the entry are the hits the same search takes
\* from a live scan of the folder.
C27_CachedEqualsLive ==
    \A k \in ServedFromCache :
        TupleSet(FilterFor(k, cache.Folders[k].Messages)) = TupleSet(LiveMatches(k))

\* The folders outside the restriction of the command in progress.
Outside == Folders \ FolderSet(Filtered(run.accountEmail, run.folderLike))

\* C28: after an index build has written the cache file, the file holds for
\* every folder outside the build's restriction the entry it held when the
\* build began.
C28_IndexFrame ==
    (run.cmd = "index" /\ spc = "idle" /\ out.save = "ok") =>
        \A k \in Outside : EntryOf(cacheFile, k) = dec[k].prior

====
